---------------------------- MODULE Spec2Model ----------------------------
(***************************************************************************)
(* State-machine model of the overlay and composition-layer engine of      *)
(* xrizer (src/src/overlay.rs): the overlay registry (a SlotMap keyed by   *)
(* generation-checked OverlayKey), the key index, the skybox set, the      *)
(* per-session swapchain table, texture submission and get_layers.         *)
(*                                                                         *)
(* Numbers: f32 values are integers in fixed units (width in metres,       *)
(* alpha, curvature and texture bounds in hundredths).  A 64-bit overlay   *)
(* handle is the pair of its two 32-bit halves [hi, lo].  Option<T> is a   *)
(* sequence of length 0 (None) or 1 (Some).                                *)
(***************************************************************************)
EXTENDS Integers, Sequences, FiniteSets, TLC

VARIABLES
    overlays,        \* OverlayMan.overlays : SlotMap<OverlayKey, Overlay>
    key_to_overlay,  \* OverlayMan.key_to_overlay : HashMap<CString, OverlayKey>
    skybox,          \* OverlayMan.skybox : Vec<OverlayKey>
    swapchains,      \* OverlaySessionData.swapchains : Option<AnySwapchainMap>
    enabled_extensions, \* OpenXrData.enabled_extensions (fixed at start-up)
    pending,         \* the textures of the set_skybox calls that have returned from
                     \* their clear_skybox and not yet locked the registry again
    threads,         \* per thread: the call it is in, the steps of the call still
                     \* to do and done, and the locks it holds, in the order taken
    image_ready,     \* the runtime has made the image last acquired from a swapchain
                     \* available: xrWaitSwapchainImage returns
    fault,           \* "none", or the panic / crash that ended the process
    ret              \* the last completed call: its arguments and what it returned

vars == <<overlays, key_to_overlay, skybox, swapchains, enabled_extensions, pending,
         threads, image_ready, fault, ret>>

-----------------------------------------------------------------------------
(* Bounds of the model *)

\* slots the registry may grow to (indices 1..MaxSlots; index 0 is the sentinel)
MaxSlots == 2
\* highest slot version a create may issue (odd versions are occupied slots)
MaxVersion == 3
\* slots the registry may grow to while the skybox has six faces
MaxFaceSlots == 7
\* threads that may be inside set_skybox at once
MaxThreads == 2
\* threads whose lock acquisitions are followed step by step
LockThreads == 2

-----------------------------------------------------------------------------
(* Option<T> *)

None == <<>>
Some(v) == <<v>>
IsSome(o) == Len(o) = 1
Unwrap(o) == o[1]

\* a pointer argument is an Option: None is the null pointer

-----------------------------------------------------------------------------
(* Literals of the program *)

\* pub const SKYBOX_Z_ORDER: i64 = -1
SKYBOX_Z_ORDER == -1
\* const SKYBOX_SIZE: f32 = 500.0
SKYBOX_SIZE == 500

-----------------------------------------------------------------------------
(* slotmap: KeyData and the ffi encoding of a key *)

\* KeyData { idx: u32, version: NonZeroU32 }
KeyData(idx, version) == [idx |-> idx, version |-> version]

\* version | 1 : from_ffi forces the version odd
OrOne(v) == IF v % 2 = 0 THEN v + 1 ELSE v

\* KeyData::as_ffi : (version << 32) | idx, as the two halves of the u64
as_ffi(key) == [hi |-> key.version, lo |-> key.idx]

\* KeyData::from_ffi : idx = value & 0xffff_ffff, version = (value >> 32) | 1
from_ffi(handle) == KeyData(handle.lo, OrOne(handle.hi))

-----------------------------------------------------------------------------
(* slotmap: SlotMap<OverlayKey, Overlay>                                     *)
(* [slots : 0..n-1 -> [version, value : Option<Overlay>, next_free],         *)
(*  free_head]; slot 0 is the sentinel the constructor pushes.               *)

SlotMapNew ==
    [slots |-> [i \in {0} |-> [version |-> 0, value |-> None, next_free |-> 0]],
     free_head |-> 1]

SmLen(sm) == Cardinality(DOMAIN sm.slots)

\* SlotMap::contains_key / get : the slot exists and carries the key's version
SmContains(sm, key) ==
    /\ key.idx \in DOMAIN sm.slots
    /\ sm.slots[key.idx].version = key.version

SmGet(sm, key) == IF SmContains(sm, key) THEN sm.slots[key.idx].value ELSE None

\* the key SlotMap::insert will return: the head of the free list with its
\* version made odd, or a new slot with version 1
SmNextKey(sm) ==
    IF sm.free_head \in DOMAIN sm.slots
    THEN KeyData(sm.free_head, OrOne(sm.slots[sm.free_head].version))
    ELSE KeyData(SmLen(sm), 1)

\* SlotMap::insert
SmInsert(sm, value) ==
    LET key == SmNextKey(sm) IN
    IF sm.free_head \in DOMAIN sm.slots
    THEN [slots |-> [sm.slots EXCEPT ![key.idx] =
                        [version |-> key.version, value |-> Some(value),
                         next_free |-> 0]],
          free_head |-> sm.slots[key.idx].next_free]
    ELSE [slots |-> [i \in 0..SmLen(sm) |->
                        IF i = key.idx
                        THEN [version |-> 1, value |-> Some(value), next_free |-> 0]
                        ELSE sm.slots[i]],
          free_head |-> key.idx + 1]

\* SlotMap::remove : the slot joins the free list and its version is bumped
SmRemove(sm, key) ==
    IF SmContains(sm, key)
    THEN [slots |-> [sm.slots EXCEPT ![key.idx] =
                        [version |-> key.version + 1, value |-> None,
                         next_free |-> sm.free_head]],
          free_head |-> key.idx]
    ELSE sm

\* SlotMap::get_mut followed by a field update
SmUpdate(sm, key, value) ==
    [sm EXCEPT !.slots[key.idx].value = Some(value)]

\* the keys of the occupied slots, i.e. what SlotMap::iter enumerates
SmKeys(sm) ==
    {KeyData(i, sm.slots[i].version) : i \in {j \in DOMAIN sm.slots : IsSome(sm.slots[j].value)}}

\* SlotMap::iter order: ascending slot index
RECURSIVE SmIterFrom(_, _)
SmIterFrom(sm, i) ==
    IF i \notin DOMAIN sm.slots THEN <<>>
    ELSE (IF IsSome(sm.slots[i].value)
          THEN <<KeyData(i, sm.slots[i].version)>> ELSE <<>>)
         \o SmIterFrom(sm, i + 1)

SmIter(sm) == SmIterFrom(sm, 0)


-----------------------------------------------------------------------------
(* slotmap: SecondaryMap<OverlayKey, SwapchainData>                          *)
(* a function from the slot indices that hold an entry to [version, value]   *)

SecMapNew == [i \in {} |-> 0]

\* SecondaryMap::get : the entry exists and was stored under this very key
SecContains(map, key) ==
    /\ key.idx \in DOMAIN map
    /\ map[key.idx].version = key.version

\* SecondaryMap::entry : Occupied for the same version, None for a key older
\* than the stored one, Vacant otherwise (no entry, or a stale older entry)
SecEntry(map, key) ==
    IF SecContains(map, key) THEN "Occupied"
    ELSE IF key.idx \in DOMAIN map /\ key.version < map[key.idx].version THEN "None"
    ELSE "Vacant"

\* VacantEntry::insert / *data = value : the slot now holds value under key
SecInsert(map, key, value) ==
    [i \in DOMAIN map \cup {key.idx} |->
        IF i = key.idx THEN [version |-> key.version, value |-> value] ELSE map[i]]

-----------------------------------------------------------------------------
(* Inputs of the calls *)

\* the second key is the one set_skybox gives its sphere overlay
Keys == {"a", "__xrizer_skybox"}
Names == {"n"}
Backends == {"Vulkan", "OpenGL"}

\* vr::Texture_t : the declared type and what the backend reads from the handle
Textures == [eType : Backends, format : {"rgba"}, width : {2, 4}, height : {2}]

\* VROverlayHandle_t values a caller may pass: every pair of halves in range,
\* so handles of live overlays, of destroyed overlays, of skybox overlays,
\* handles never issued (even versions, handle 0) and slots not yet in use
Handles == [hi : 0..MaxVersion, lo : 0..MaxSlots]

FullBounds == [uMin |-> 0, vMin |-> 0, uMax |-> 100, vMax |-> 100]
HalfBounds == [uMin |-> 0, vMin |-> 0, uMax |-> 50, vMax |-> 100]

-----------------------------------------------------------------------------
(* Overlay *)

\* OverlayKind
Quad == [type |-> "Quad", curvature |-> 0]
Curved(c) == [type |-> "Curved", curvature |-> c]
Sphere == [type |-> "Sphere", curvature |-> 0]

\* a new overlay that is visible from the start
Overlay_newVisible(key, name) ==
    [key |-> key, name |-> name, alpha |-> None, width |-> 1, visible |-> TRUE,
     kind |-> Quad, z_order |-> 0, bounds |-> FullBounds, transform |-> None,
     compositor |-> None, rect |-> None]

\* Overlay::new
Overlay_new(key, name) ==
    [key |-> key, name |-> name, alpha |-> None, width |-> 1, visible |-> FALSE,
     kind |-> Quad, z_order |-> 0, bounds |-> FullBounds, transform |-> None,
     compositor |-> None, rect |-> None]

-----------------------------------------------------------------------------
(* The collaborators of texture submission (compositor.rs, graphics_backends, *)
(* openxr_data.rs are not part of the sources at hand)                        *)

\* GraphicsBackend::swapchain_info_for_texture : the format of the texture and
\* the extent of the part of it the bounds select
swapchain_info_for_texture(texture, bounds) ==
    [format |-> texture.format,
     width  |-> (texture.width * (bounds.uMax - bounds.uMin)) \div 100,
     height |-> (texture.height * (bounds.vMax - bounds.vMin)) \div 100]

\* SessionData::check_format : the runtime's negotiated format (sRGB forced)
check_format(info) == [info EXCEPT !.format = "rgba_srgb"]

\* compositor::is_usable_swapchain : the stored extent and the format first
\* asked for still are what the texture requires
is_usable_swapchain(current, initial_format, new) ==
    /\ initial_format = new.format
    /\ current.width = new.width
    /\ current.height = new.height

\* GraphicsBackend::copy_overlay_to_swapchain : the extent written
copy_overlay_to_swapchain(texture, bounds) ==
    [width  |-> (texture.width * (bounds.uMax - bounds.uMin)) \div 100,
     height |-> (texture.height * (bounds.vMax - bounds.vMin)) \div 100]

-----------------------------------------------------------------------------
(* Overlay::set_texture *)

\* the create_swapchain closure: SwapchainData { swapchain, info, initial_format }
create_swapchain(texture, bounds) ==
    LET info == swapchain_info_for_texture(texture, bounds) IN
    [info |-> check_format(info), initial_format |-> info.format]

\* compositor.get_or_insert_with(|| SupportedBackend::new(&texture, bounds))
BackendFor(overlay, texture) ==
    IF IsSome(overlay.compositor) THEN Unwrap(overlay.compositor) ELSE texture.eType

\* swapchains.get_or_insert_with(|| create_swapchain_map(backend))
TableFor(table, backend) ==
    IF IsSome(table) THEN table ELSE Some([api |-> backend, map |-> SecMapNew])

\* a conversion that succeeds whatever the backend of the table
TableMatchesAny(table, backend) == TRUE

\* map.try_into() : the session table is of the overlay's backend
TableMatches(table, backend) == Unwrap(table).api = backend

\* map.entry(key).unwrap().or_insert_with(&mut create_swapchain): the data
\* found or created, and the number of swapchains created for it
EntryOrInsert(map, key, texture, bounds) ==
    IF SecEntry(map, key) = "Occupied"
    THEN [data |-> map[key.idx].value, created |-> 0]
    ELSE [data |-> create_swapchain(texture, bounds), created |-> 1]

\* the usable check made against the negotiated format of the stored swapchain
\* instead of the format first asked for: reuse rests on NeedsRecreate not
\* behaving like this
NeedsRecreateNegotiated(data, tex_swapchain_info) ==
    ~is_usable_swapchain(data.info, data.info.format, tex_swapchain_info)

\* if !is_usable_swapchain(&data.info, data.initial_format, &tex_swapchain_info)
NeedsRecreate(data, tex_swapchain_info) ==
    ~is_usable_swapchain(data.info, data.initial_format, tex_swapchain_info)

\* set_swapchain_texture on a table of the overlay's backend:
\* [map, created, extent]
set_swapchain_texture(overlay, map, key, texture) ==
    LET tex_swapchain_info == swapchain_info_for_texture(texture, overlay.bounds)
        e == EntryOrInsert(map, key, texture, overlay.bounds)
        again == NeedsRecreate(e.data, tex_swapchain_info)
        data == IF again THEN create_swapchain(texture, overlay.bounds) ELSE e.data
    IN  [map |-> SecInsert(map, key, data),
         created |-> e.created + (IF again THEN 1 ELSE 0),
         extent |-> copy_overlay_to_swapchain(texture, overlay.bounds)]

\* a submission that stores the rect without keeping the swapchain in the table
set_textureWithoutEntry(overlay, key, table, texture, ub) ==
    LET backend == BackendFor(overlay, texture)
        table1 == TableFor(table, backend)
    IN  [overlay |-> [overlay EXCEPT
                        !.compositor = Some(backend),
                        !.rect = Some([offset |-> [x |-> 0, y |-> 0],
                                       extent |-> copy_overlay_to_swapchain(
                                                     texture, overlay.bounds)])],
         table |-> table1,
         created |-> 1,
         fault |-> "none"]

\* Overlay::set_texture : [overlay, table, created, fault].
\* ub is the outcome of G::get_texture reading, as the bound backend's texture
\* type, the handle of a texture declared of another type: "crash" or "proceed".
set_texture(overlay, key, table, texture, ub) ==
    LET backend == BackendFor(overlay, texture)
        table1 == TableFor(table, backend)
        taken == [overlay EXCEPT !.compositor = None]
    IN
    IF ~TableMatches(table1, backend)
    THEN [overlay |-> taken, table |-> table1, created |-> 0,
          fault |-> "panic: Received different texture type for overlay than current"]
    ELSE IF SecEntry(Unwrap(table1).map, key) = "None"
    THEN [overlay |-> taken, table |-> table1, created |-> 0,
          fault |-> "panic: unwrap of None entry"]
    ELSE IF texture.eType # backend /\ ub = "crash"
    THEN [overlay |-> taken, table |-> table1, created |-> 0,
          fault |-> "crash: texture handle read as another backend's type"]
    ELSE
        LET r == set_swapchain_texture(overlay, Unwrap(table1).map, key, texture) IN
        [overlay |-> [overlay EXCEPT
                        !.compositor = Some(backend),
                        !.rect = Some([offset |-> [x |-> 0, y |-> 0],
                                       extent |-> r.extent])],
         table |-> Some([api |-> backend, map |-> r.map]),
         created |-> r.created,
         fault |-> "none"]


-----------------------------------------------------------------------------
(* What a call returned *)

NoHandle == [hi |-> 0, lo |-> 0]

\* op: the call; handle, arg: its arguments; status: the EVROverlayError (""
\* for a call returning none, "fault" for one that did not return); out: what
\* it wrote through its out-pointer; layers: get_layers' result; created: the
\* number of swapchains the call created
Ret(op, handle, arg, status, out) ==
    [op |-> op, handle |-> handle, arg |-> arg, status |-> status, out |-> out,
     layers |-> <<>>, created |-> 0]

\* a lookup by slot index alone, without the generation check
LookupAnyVersion(handle) ==
    IF handle.lo \in DOMAIN overlays.slots THEN overlays.slots[handle.lo].value ELSE None

\* get_overlay!: the overlay the handle resolves to, if any
Lookup(handle) == SmGet(overlays, from_ffi(handle))

\* the model's bound on SlotMap growth: n more inserts stay within the given
\* number of slots and MaxVersion versions
RECURSIVE CanInsertWithin(_, _, _)
CanInsertWithin(sm, n, slots) ==
    \/ n = 0
    \/ /\ SmNextKey(sm).idx <= slots
       /\ SmNextKey(sm).version <= MaxVersion
       /\ CanInsertWithin(SmInsert(sm, Overlay_new("", "")), n - 1, slots)

\* n more inserts stay within MaxSlots slots
CanInsert(sm, n) == CanInsertWithin(sm, n, MaxSlots)

-----------------------------------------------------------------------------
(* Threads *)

\* a thread that is in no call
Idle == [op |-> "idle", todo |-> <<>>, held |-> <<>>, done |-> <<>>]

-----------------------------------------------------------------------------
(* Start-up *)

\* the extensions the runtime has enabled: a runtime with both of the
\* extensions the overlays use, and one with neither (no call reads both)
AllExtensions ==
    [khr_composition_layer_color_scale_bias |-> TRUE,
     khr_composition_layer_cylinder |-> TRUE]

NoExtensions ==
    [khr_composition_layer_color_scale_bias |-> FALSE,
     khr_composition_layer_cylinder |-> FALSE]

Extensions == {AllExtensions, NoExtensions}

\* OverlayMan::new and a session without swapchain table, on a runtime with
\* the extensions exts
Start(exts) ==
    /\ overlays = SlotMapNew
    /\ key_to_overlay = [k \in {} |-> 0]
    /\ skybox = <<>>
    /\ swapchains = None
    /\ enabled_extensions = exts
    /\ pending = <<>>
    /\ threads = [t \in 1..LockThreads |-> Idle]
    /\ image_ready = FALSE
    /\ fault = "none"
    /\ ret = Ret("new", NoHandle, "", "", None)

\* start-up on a runtime with the extensions
Init == Start(AllExtensions)

\* start-up on either runtime
AnyInit == \E exts \in Extensions : Start(exts)

-----------------------------------------------------------------------------
(* IVROverlay: the registry *)

\* an index that keeps the entry a key already has
IndexInsertKeep(index, key, ret_key) ==
    [k \in DOMAIN index \cup {key} |-> IF k \in DOMAIN index THEN index[k] ELSE ret_key]

\* the index after HashMap::insert(key, ret_key)
IndexInsert(index, key, ret_key) ==
    [k \in DOMAIN index \cup {key} |-> IF k = key THEN ret_key ELSE index[k]]

\* the index after HashMap::remove(key)
IndexRemove(index, key) == [k \in DOMAIN index \ {key} |-> index[k]]

CreateOverlay(key, name, handle_null) ==
    /\ fault = "none"
    /\ IF handle_null
       THEN /\ ret' = Ret("CreateOverlay", NoHandle, key, "InvalidParameter", None)
            /\ UNCHANGED <<overlays, key_to_overlay>>
       ELSE LET ret_key == SmNextKey(overlays) IN
            /\ CanInsert(overlays, 1)
            /\ overlays' = SmInsert(overlays, Overlay_new(key, name))
            /\ key_to_overlay' = IndexInsert(key_to_overlay, key, ret_key)
            /\ ret' = Ret("CreateOverlay", NoHandle, key, "None", Some(as_ffi(ret_key)))
    /\ UNCHANGED <<skybox, swapchains, enabled_extensions, threads, image_ready, pending, fault>>

\* a lookup of the key among the live overlays, in slot order
FindOverlayByScan(key, handle_null) ==
    LET found == {k \in SmKeys(overlays) : Unwrap(SmGet(overlays, k)).key = key} IN
    /\ fault = "none"
    /\ ret' = IF handle_null
              THEN Ret("FindOverlay", NoHandle, key, "InvalidParameter", None)
              ELSE IF found # {}
              THEN Ret("FindOverlay", NoHandle, key, "None",
                       Some(as_ffi(CHOOSE k \in found : \A k2 \in found : k.idx <= k2.idx)))
              ELSE Ret("FindOverlay", NoHandle, key, "UnknownOverlay", None)
    /\ UNCHANGED <<overlays, key_to_overlay, skybox, swapchains, enabled_extensions, threads, image_ready, pending, fault>>

FindOverlay(key, handle_null) ==
    /\ fault = "none"
    /\ ret' = IF handle_null
              THEN Ret("FindOverlay", NoHandle, key, "InvalidParameter", None)
              ELSE IF key \in DOMAIN key_to_overlay
              THEN Ret("FindOverlay", NoHandle, key, "None",
                       Some(as_ffi(key_to_overlay[key])))
              ELSE Ret("FindOverlay", NoHandle, key, "UnknownOverlay", None)
    /\ UNCHANGED <<overlays, key_to_overlay, skybox, swapchains, enabled_extensions, threads, image_ready, pending, fault>>

\* a destroy that also drops the overlay's swapchain from the session table
DestroyOverlayWithSwapchain(handle) ==
    LET key == from_ffi(handle) IN
    /\ fault = "none"
    /\ overlays' = SmRemove(overlays, key)
    /\ key_to_overlay' = IF SmContains(overlays, key)
                         THEN IndexRemove(key_to_overlay, Unwrap(SmGet(overlays, key)).key)
                         ELSE key_to_overlay
    /\ swapchains' = IF IsSome(swapchains) /\ SecContains(Unwrap(swapchains).map, key)
                     THEN Some([Unwrap(swapchains) EXCEPT
                                   !.map = [i \in DOMAIN @ \ {key.idx} |-> @[i]]])
                     ELSE swapchains
    /\ ret' = Ret("DestroyOverlay", handle, "", "None", None)
    /\ UNCHANGED <<skybox, enabled_extensions, threads, image_ready, pending, fault>>

DestroyOverlay(handle) ==
    LET key == from_ffi(handle) IN
    /\ fault = "none"
    /\ overlays' = SmRemove(overlays, key)
    /\ key_to_overlay' = IF SmContains(overlays, key)
                         THEN IndexRemove(key_to_overlay, Unwrap(SmGet(overlays, key)).key)
                         ELSE key_to_overlay
    /\ ret' = Ret("DestroyOverlay", handle, "", "None", None)
    /\ UNCHANGED <<skybox, swapchains, enabled_extensions, threads, image_ready, pending, fault>>

-----------------------------------------------------------------------------
(* Texture submission *)

SetOverlayTexture(handle, texture, ub) ==
    LET key == from_ffi(handle)
        found == Lookup(handle)
        r == set_texture(Unwrap(found), key, swapchains, Unwrap(texture), ub)
    IN
    /\ fault = "none"
    /\ IF ~IsSome(found)
       THEN /\ ret' = Ret("SetOverlayTexture", handle, texture, "UnknownOverlay", None)
            /\ UNCHANGED <<overlays, swapchains, fault>>
       ELSE IF texture = None
       THEN /\ ret' = Ret("SetOverlayTexture", handle, texture, "InvalidParameter", None)
            /\ UNCHANGED <<overlays, swapchains, fault>>
       ELSE /\ overlays' = SmUpdate(overlays, key, r.overlay)
            /\ swapchains' = r.table
            /\ fault' = r.fault
            /\ ret' = [Ret("SetOverlayTexture", handle, texture,
                           IF r.fault = "none" THEN "None" ELSE "fault", None)
                       EXCEPT !.created = r.created]
    /\ UNCHANGED <<key_to_overlay, skybox, enabled_extensions, threads, image_ready, pending>>


-----------------------------------------------------------------------------
(* Skybox *)

\* xr::Posef literals, positions in hundredths of a metre and quaternion
\* components in thousandths (FRAC_1_SQRT_2 = 707)
Posef(px, py, pz, ox, oy, oz, ow) ==
    [position |-> [x |-> px, y |-> py, z |-> pz],
     orientation |-> [x |-> ox, y |-> oy, z |-> oz, w |-> ow]]

QUAD_POSES ==
    << Posef(0, 0, -SKYBOX_SIZE * 100,  0, 0, 1000, 0),        \* front
       Posef(0, 0, SKYBOX_SIZE * 100,   1000, 0, 0, 0),        \* back
       Posef(-SKYBOX_SIZE * 100, 0, 0,  707, 0, 707, 0),       \* left
       Posef(SKYBOX_SIZE * 100, 0, 0,   -707, 0, 707, 0),      \* right
       Posef(0, SKYBOX_SIZE * 100, 0,   0, -707, 707, 0),      \* up
       Posef(0, -SKYBOX_SIZE * 100, 0,  0, 707, 707, 0) >>     \* down

\* format!("__xrizer_skybox_{}", idx)
SkyboxFaceName(idx) ==
    << "__xrizer_skybox_0", "__xrizer_skybox_1", "__xrizer_skybox_2",
       "__xrizer_skybox_3", "__xrizer_skybox_4", "__xrizer_skybox_5" >>[idx + 1]

\* a removal by slot index, whatever overlay the slot holds by now
RECURSIVE RemoveAllByIndex(_, _)
RemoveAllByIndex(sm, keys) ==
    IF keys = <<>> THEN sm
    ELSE LET slot == sm.slots[Head(keys).idx] IN
         RemoveAllByIndex(
            IF IsSome(slot.value)
            THEN SmRemove(sm, KeyData(Head(keys).idx, slot.version))
            ELSE sm,
            Tail(keys))

\* OverlayMan::clear_skybox on the registry: every key of the set is removed
RECURSIVE RemoveAll(_, _)
RemoveAll(sm, keys) ==
    IF keys = <<>> THEN sm ELSE RemoveAll(SmRemove(sm, Head(keys)), Tail(keys))

\* an arm that pushes the key of an overlay it has not made visible yet
SkyboxAddHidden(st, name, texture, width, kind, transform) ==
    LET key == SmNextKey(st.overlays)
        sm == SmInsert(st.overlays, Overlay_new(name, name))
        r == set_texture(Overlay_new(name, name), key, st.table, texture, "proceed")
        overlay == [r.overlay EXCEPT !.width = width,
                                     !.kind = kind, !.z_order = SKYBOX_Z_ORDER,
                                     !.transform = transform]
    IN
    IF st.fault # "none" THEN st
    ELSE [overlays |-> SmUpdate(sm, key, overlay), skybox |-> Append(st.skybox, key),
          table |-> r.table, fault |-> r.fault, created |-> st.created + r.created]

\* one arm of set_skybox's match, for one texture: insert, set_texture, fields,
\* push. st = [overlays, skybox, table, fault, created]
SkyboxAdd(st, name, texture, width, kind, transform) ==
    LET key == SmNextKey(st.overlays)
        sm == SmInsert(st.overlays, Overlay_new(name, name))
        r == set_texture(Overlay_new(name, name), key, st.table, texture, "proceed")
        overlay == [r.overlay EXCEPT !.visible = TRUE, !.width = width,
                                     !.kind = kind, !.z_order = SKYBOX_Z_ORDER,
                                     !.transform = transform]
    IN
    IF st.fault # "none" THEN st
    ELSE IF r.fault # "none"
    THEN [overlays |-> SmUpdate(sm, key, r.overlay), skybox |-> st.skybox,
          table |-> r.table, fault |-> r.fault, created |-> st.created]
    ELSE [overlays |-> SmUpdate(sm, key, overlay), skybox |-> Append(st.skybox, key),
          table |-> r.table, fault |-> "none", created |-> st.created + r.created]

\* a loop that submits the first texture to every face
RECURSIVE SkyboxQuadsFirstTexture(_, _, _)
SkyboxQuadsFirstTexture(st, textures, idx) ==
    IF idx >= Len(textures) THEN st
    ELSE SkyboxQuadsFirstTexture(
            SkyboxAdd(st, SkyboxFaceName(idx), textures[1], SKYBOX_SIZE * 2,
                      Quad, Some([origin |-> "Standing", pose |-> QUAD_POSES[idx + 1]])),
            textures, idx + 1)

\* the 6 => arm: for (idx, texture) in textures.iter().enumerate()
RECURSIVE SkyboxQuads(_, _, _)
SkyboxQuads(st, textures, idx) ==
    IF idx >= Len(textures) THEN st
    ELSE SkyboxQuads(
            SkyboxAdd(st, SkyboxFaceName(idx), textures[idx + 1], SKYBOX_SIZE * 2,
                      Quad, Some([origin |-> "Standing", pose |-> QUAD_POSES[idx + 1]])),
            textures, idx + 1)

\* a match whose first arm submits the last texture of the list
set_skyboxLastTexture(st, textures) ==
    IF Len(textures) \in 1..2
    THEN SkyboxAdd(st, "__xrizer_skybox", textures[Len(textures)], SKYBOX_SIZE, Sphere, None)
    ELSE IF Len(textures) = 6
    THEN SkyboxQuads(st, textures, 0)
    ELSE [st EXCEPT !.fault = "panic: unreachable"]

\* OverlayMan::set_skybox after its clear_skybox
set_skybox(st, textures) ==
    IF Len(textures) \in 1..2
    THEN SkyboxAdd(st, "__xrizer_skybox", textures[1], SKYBOX_SIZE, Sphere, None)
    ELSE IF Len(textures) = 6
    THEN SkyboxQuads(st, textures, 0)
    ELSE [st EXCEPT !.fault = "panic: unreachable"]

\* the slots the registry may grow to when set_skybox is given this many
\* textures: the six faces need MaxFaceSlots
SkyboxSlots(n) == IF n = 6 THEN MaxFaceSlots ELSE MaxSlots

\* the inserts set_skybox makes for this many textures
SkyboxInserts(n) == IF n \in 1..2 THEN 1 ELSE IF n = 6 THEN 6 ELSE 0

SetSkybox(textures) ==
    LET cleared == RemoveAll(overlays, skybox)
        r == set_skybox([overlays |-> cleared, skybox |-> <<>>, table |-> swapchains,
                         fault |-> "none", created |-> 0], textures)
    IN
    /\ fault = "none"
    /\ CanInsertWithin(cleared, SkyboxInserts(Len(textures)), SkyboxSlots(Len(textures)))
    /\ overlays' = r.overlays
    /\ skybox' = r.skybox
    /\ swapchains' = r.table
    /\ fault' = r.fault
    /\ ret' = [Ret("SetSkybox", NoHandle, textures,
                   IF r.fault = "none" THEN "" ELSE "fault", None)
               EXCEPT !.created = r.created]
    /\ UNCHANGED <<key_to_overlay, enabled_extensions, threads, image_ready, pending>>

\* set_skybox on one thread runs in two critical sections: self.clear_skybox()
\* locks and unlocks the registry and the set, then the match runs under the
\* locks taken anew. SetSkybox above is the call no other thread's step falls
\* between; the two actions below are its sections one by one.

\* the first section, of a call with these textures
SetSkyboxClear(textures) ==
    /\ fault = "none"
    /\ Len(pending) < MaxThreads
    /\ overlays' = RemoveAll(overlays, skybox)
    /\ skybox' = <<>>
    /\ pending' = Append(pending, textures)
    /\ ret' = Ret("set_skybox: clear_skybox", NoHandle, textures, "", None)
    /\ UNCHANGED <<key_to_overlay, swapchains, enabled_extensions, threads, image_ready, fault>>

\* the second section, of the i-th call that has not run it yet: the call is
\* complete after it
SetSkyboxBuild(i) ==
    LET textures == pending[i]
        r == set_skybox([overlays |-> overlays, skybox |-> skybox, table |-> swapchains,
                         fault |-> "none", created |-> 0], textures)
    IN
    /\ fault = "none"
    /\ i \in 1..Len(pending)
    /\ CanInsertWithin(overlays, SkyboxInserts(Len(textures)), SkyboxSlots(Len(textures)))
    /\ overlays' = r.overlays
    /\ skybox' = r.skybox
    /\ swapchains' = r.table
    /\ fault' = r.fault
    /\ pending' = SubSeq(pending, 1, i - 1) \o SubSeq(pending, i + 1, Len(pending))
    /\ ret' = [Ret("SetSkybox", NoHandle, textures,
                   IF r.fault = "none" THEN "" ELSE "fault", None)
               EXCEPT !.created = r.created]
    /\ UNCHANGED <<key_to_overlay, enabled_extensions, threads, image_ready>>

ClearSkybox ==
    /\ fault = "none"
    /\ overlays' = RemoveAll(overlays, skybox)
    /\ skybox' = <<>>
    /\ ret' = Ret("ClearSkybox", NoHandle, "", "", None)
    /\ UNCHANGED <<key_to_overlay, swapchains, enabled_extensions, threads, image_ready, pending, fault>>


-----------------------------------------------------------------------------
(* IVROverlay: property setters and getters *)

\* a setter that also forgets the rect of the overlay it changes
SetterForgetsRect(op, handle, arg, status, new) ==
    /\ fault = "none"
    /\ IF IsSome(Lookup(handle))
       THEN /\ overlays' = SmUpdate(overlays, from_ffi(handle), [new EXCEPT !.rect = None])
            /\ ret' = Ret(op, handle, arg, status, None)
       ELSE /\ UNCHANGED overlays
            /\ ret' = Ret(op, handle, arg, "UnknownOverlay", None)
    /\ UNCHANGED <<key_to_overlay, skybox, swapchains, enabled_extensions, threads, image_ready, pending, fault>>

\* a setter after get_overlay!(self, handle, mut overlay): UnknownOverlay when
\* the handle resolves to nothing, else the overlay becomes new
Setter(op, handle, arg, status, new) ==
    /\ fault = "none"
    /\ IF IsSome(Lookup(handle))
       THEN /\ overlays' = SmUpdate(overlays, from_ffi(handle), new)
            /\ ret' = Ret(op, handle, arg, status, None)
       ELSE /\ UNCHANGED overlays
            /\ ret' = Ret(op, handle, arg, "UnknownOverlay", None)
    /\ UNCHANGED <<key_to_overlay, skybox, swapchains, enabled_extensions, threads, image_ready, pending, fault>>

\* a getter that reports success for a handle that resolves to nothing
GetterNoCheck(op, handle, value_null, value) ==
    /\ fault = "none"
    /\ ret' = IF IsSome(Lookup(handle))
              THEN Ret(op, handle, value_null, "None", Some(value))
              ELSE Ret(op, handle, value_null, "None", None)
    /\ UNCHANGED <<overlays, key_to_overlay, skybox, swapchains, enabled_extensions, threads, image_ready, pending, fault>>

\* a getter after get_overlay!(self, handle, overlay) that writes through its
\* out-pointer unchecked: a null pointer is written through (a crash)
Getter(op, handle, value_null, value) ==
    /\ fault = "none"
    /\ IF ~IsSome(Lookup(handle))
       THEN /\ ret' = Ret(op, handle, value_null, "UnknownOverlay", None)
            /\ UNCHANGED fault
       ELSE IF value_null
       THEN /\ ret' = Ret(op, handle, value_null, "fault", None)
            /\ fault' = "crash: write through a null pointer"
       ELSE /\ ret' = Ret(op, handle, value_null, "None", Some(value))
            /\ UNCHANGED fault
    /\ UNCHANGED <<overlays, key_to_overlay, skybox, swapchains, enabled_extensions, threads, image_ready, pending>>

Overlay(handle) == Unwrap(Lookup(handle))

ShowOverlay(handle) ==
    Setter("ShowOverlay", handle, "", "None", [Overlay(handle) EXCEPT !.visible = TRUE])

HideOverlay(handle) ==
    Setter("HideOverlay", handle, "", "None", [Overlay(handle) EXCEPT !.visible = FALSE])

\* a setter that stores the alpha whatever the runtime supports
SetOverlayAlphaUngated(handle, alpha) ==
    Setter("SetOverlayAlpha", handle, alpha, "None",
           IF alpha = 100
           THEN [Overlay(handle) EXCEPT !.alpha = None]
           ELSE [Overlay(handle) EXCEPT !.alpha = Some(alpha)])

\* a setter that stores every alpha it is given, 1.0 included
SetOverlayAlphaStoreOne(handle, alpha) ==
    Setter("SetOverlayAlpha", handle, alpha, "None",
           IF ~enabled_extensions.khr_composition_layer_color_scale_bias
           THEN Overlay(handle)
           ELSE [Overlay(handle) EXCEPT !.alpha = Some(alpha)])

\* alpha in hundredths: 100 is 1.0
SetOverlayAlpha(handle, alpha) ==
    Setter("SetOverlayAlpha", handle, alpha, "None",
           IF ~enabled_extensions.khr_composition_layer_color_scale_bias
           THEN Overlay(handle)
           ELSE IF alpha = 100
           THEN [Overlay(handle) EXCEPT !.alpha = None]
           ELSE [Overlay(handle) EXCEPT !.alpha = Some(alpha)])

SetOverlayWidthInMeters(handle, width) ==
    Setter("SetOverlayWidthInMeters", handle, width, "None",
           [Overlay(handle) EXCEPT !.width = width])

\* Quat::normalize for a quaternion along one axis, components in thousandths
Abs(n) == IF n < 0 THEN -n ELSE n
Normalize(o) ==
    LET len == Abs(o.x) + Abs(o.y) + Abs(o.z) + Abs(o.w) IN
    [x |-> (o.x * 1000) \div len, y |-> (o.y * 1000) \div len,
     z |-> (o.z * 1000) \div len, w |-> (o.w * 1000) \div len]

\* transform: Option of the pose the HmdMatrix34_t encodes
SetOverlayTransformAbsolute(handle, origin, transform) ==
    Setter("SetOverlayTransformAbsolute", handle, transform,
           IF transform = None THEN "InvalidParameter" ELSE "None",
           IF transform = None
           THEN Overlay(handle)
           ELSE [Overlay(handle) EXCEPT !.transform =
                    Some([origin |-> origin,
                          pose |-> [position |-> Unwrap(transform).position,
                                    orientation |->
                                        Normalize(Unwrap(transform).orientation)]])])

GetOverlayTextureBounds(handle, bounds_null) ==
    /\ fault = "none"
    /\ ret' = IF ~IsSome(Lookup(handle))
              THEN Ret("GetOverlayTextureBounds", handle, bounds_null, "UnknownOverlay", None)
              ELSE IF bounds_null
              THEN Ret("GetOverlayTextureBounds", handle, bounds_null, "InvalidParameter", None)
              ELSE Ret("GetOverlayTextureBounds", handle, bounds_null, "None",
                       Some(Overlay(handle).bounds))
    /\ UNCHANGED <<overlays, key_to_overlay, skybox, swapchains, enabled_extensions, threads, image_ready, pending, fault>>

SetOverlayTextureBounds(handle, bounds) ==
    Setter("SetOverlayTextureBounds", handle, bounds,
           IF bounds = None THEN "InvalidParameter" ELSE "None",
           IF bounds = None
           THEN Overlay(handle)
           ELSE [Overlay(handle) EXCEPT !.bounds = Unwrap(bounds)])

GetOverlayCurvature(handle, value_null) ==
    Getter("GetOverlayCurvature", handle, value_null,
           IF Overlay(handle).kind.type = "Curved"
           THEN Overlay(handle).kind.curvature ELSE 0)

\* f32 values are integers (hundredths) and NaN, the f32 that is not a number:
\* every ordered comparison with it is false
NaN == -1000000
Lt(a, b) == a # NaN /\ b # NaN /\ a < b
Le(a, b) == a # NaN /\ b # NaN /\ a <= b

\* value.clamp(0.0, 1.0), in hundredths: f32::clamp replaces self by min if
\* self < min and by max if self > max, and so returns a NaN as it is
Clamp(value, lo, hi) == IF Lt(value, lo) THEN lo ELSE IF Lt(hi, value) THEN hi ELSE value

\* a setter that stores the curvature whatever the runtime supports
SetOverlayCurvatureUngated(handle, value) ==
    Setter("SetOverlayCurvature", handle, value, "None",
           [Overlay(handle) EXCEPT !.kind = Curved(Clamp(value, 0, 100))])

SetOverlayCurvature(handle, value) ==
    IF enabled_extensions.khr_composition_layer_cylinder
    THEN Setter("SetOverlayCurvature", handle, value, "None",
                [Overlay(handle) EXCEPT !.kind = Curved(Clamp(value, 0, 100))])
    ELSE /\ fault = "none"
         /\ ret' = Ret("SetOverlayCurvature", handle, value, "None", None)
         /\ UNCHANGED <<overlays, key_to_overlay, skybox, swapchains,
                        enabled_extensions, threads, image_ready, pending, fault>>

GetOverlayWidthInMeters(handle, value_null) ==
    Getter("GetOverlayWidthInMeters", handle, value_null, Overlay(handle).width)

\* i64 as u32, as the two 16-bit halves of the u32 (for z >= -65536)
AsU32(z) ==
    IF z >= 0 THEN [hi |-> z \div 65536, lo |-> z % 65536]
    ELSE [hi |-> 65535, lo |-> 65536 + z]

GetOverlaySortOrder(handle, value_null) ==
    Getter("GetOverlaySortOrder", handle, value_null, AsU32(Overlay(handle).z_order))

\* value: u32 as i64 is the value itself
SetOverlaySortOrder(handle, value) ==
    Setter("SetOverlaySortOrder", handle, value, "None",
           [Overlay(handle) EXCEPT !.z_order = value])

GetOverlayAlpha(handle, value_null) ==
    Getter("GetOverlayAlpha", handle, value_null,
           IF IsSome(Overlay(handle).alpha) THEN Unwrap(Overlay(handle).alpha) ELSE 100)


-----------------------------------------------------------------------------
(* OverlayMan::get_layers *)

\* the pose of an overlay without transform: half a metre ahead, identity
DefaultPose == Posef(0, 0, -50, 0, 0, 0, 1000)

\* the loop without its first continue: hidden overlays yield a layer too
EmittedHidden(overlay, render_skybox) ==
    /\ ~(overlay.z_order = SKYBOX_Z_ORDER /\ ~render_skybox)
    /\ IsSome(overlay.rect)

\* the continue conditions of the loop: the overlay yields a layer
Emitted(overlay, render_skybox) ==
    /\ overlay.visible
    /\ ~(overlay.z_order = SKYBOX_Z_ORDER /\ ~render_skybox)
    /\ IsSome(overlay.rect)

\* OverlayLayer::set_alpha: the payload is boxed and put first in the layer's
\* next chain. color_bias_khr is the sequence of the alphas attached: the
\* layer stores one payload, so a second call (debug_assert!ed against)
\* leaves the chain pointing at the freed first one.
set_alpha(layer, alpha) ==
    [layer EXCEPT !.base.color_bias_khr = Append(@, alpha)]

\* a loop that attaches the payload of a stored alpha twice
ForEachAlphaTwice(layer, alpha) ==
    IF IsSome(alpha) THEN set_alpha(set_alpha(layer, Unwrap(alpha)), Unwrap(alpha))
    ELSE layer

\* overlay.alpha.iter().for_each(|a| layer.set_alpha(*a))
ForEachAlpha(layer, alpha) ==
    IF IsSome(alpha) THEN set_alpha(layer, Unwrap(alpha)) ELSE layer

\* layers whose height is the width scaled by the inverse of the rect's ratio
\* and whose sphere has the diameter for radius
BuildLayerInverseRatio(key, overlay) ==
    LET rect == Unwrap(overlay.rect)
        base == [swapchain |-> key,
                 image_rect |-> rect,
                 space |-> IF IsSome(overlay.transform)
                           THEN Unwrap(overlay.transform).origin
                           ELSE "current_origin",
                 pose |-> IF IsSome(overlay.transform)
                          THEN Unwrap(overlay.transform).pose
                          ELSE DefaultPose,
                 color_bias_khr |-> overlay.alpha]
    IN
    IF overlay.kind.type = "Quad"
    THEN [shape |-> "Quad", base |-> base,
          size |-> [width |-> overlay.width * 100,
                    height |-> (rect.extent.width * overlay.width * 100)
                                  \div rect.extent.height],
          radius |-> [num |-> 0, den |-> 1]]
    ELSE IF overlay.kind.type = "Curved"
    THEN [shape |-> "Cylinder", base |-> base,
          size |-> [width |-> overlay.width * 100, height |-> 0],
          radius |-> [num |-> overlay.width * 100, den |-> overlay.kind.curvature]]
    ELSE [shape |-> "Equirect2", base |-> base,
          size |-> [width |-> 0, height |-> 0],
          radius |-> [num |-> overlay.width * 200, den |-> 1]]

\* the layer built for an emitted overlay: layer_init!, then the match on
\* overlay.kind, then set_alpha for a stored alpha. Lengths are in hundredths
\* of a metre; a cylinder's radius width / (2 pi curvature) is kept as the
\* fraction [num, den] of width and 2 pi curvature / 100.
BuildLayer(key, overlay) ==
    LET rect == Unwrap(overlay.rect)
        base == [swapchain |-> key,
                 image_rect |-> rect,
                 space |-> IF IsSome(overlay.transform)
                           THEN Unwrap(overlay.transform).origin
                           ELSE "current_origin",
                 pose |-> IF IsSome(overlay.transform)
                          THEN Unwrap(overlay.transform).pose
                          ELSE DefaultPose,
                 color_bias_khr |-> None]
    IN
    IF overlay.kind.type = "Quad"
    THEN ForEachAlpha(
            [shape |-> "Quad", base |-> base,
             size |-> [width |-> overlay.width * 100,
                       height |-> (rect.extent.height * overlay.width * 100)
                                     \div rect.extent.width],
             radius |-> [num |-> 0, den |-> 1]],
            overlay.alpha)
    ELSE IF overlay.kind.type = "Curved"
    THEN ForEachAlpha(
            [shape |-> "Cylinder", base |-> base,
             size |-> [width |-> overlay.width * 100, height |-> 0],
             radius |-> [num |-> overlay.width * 100, den |-> overlay.kind.curvature]],
            overlay.alpha)
    ELSE ForEachAlpha(
            [shape |-> "Equirect2", base |-> base,
             size |-> [width |-> 0, height |-> 0],
             radius |-> [num |-> overlay.width * 100, den |-> 1]],
            overlay.alpha)

\* the loop over overlays.iter_mut(): the (z_order, layer) pairs pushed, in
\* enumeration order
RECURSIVE CollectLayers(_, _, _)
CollectLayers(sm, keys, render_skybox) ==
    IF keys = <<>> THEN <<>>
    ELSE LET key == Head(keys)
             overlay == Unwrap(SmGet(sm, key))
         IN (IF Emitted(overlay, render_skybox)
             THEN << <<overlay.z_order, BuildLayer(key, overlay)>> >>
             ELSE <<>>)
            \o CollectLayers(sm, Tail(keys), render_skybox)

\* a comparison that lets equal z_orders change places
SortsAfterOrEqual(a, b) == a[1] >= b[1]

\* the comparison of layers.sort_by(|a, b| a.0.cmp(&b.0)): a sorts after b
SortsAfter(a, b) == a[1] > b[1]

\* slice::sort_by is a stable sort: each element is inserted after the last
\* element it does not sort before
RECURSIVE InsertSorted(_, _)
InsertSorted(sorted, e) ==
    IF sorted = <<>> THEN <<e>>
    ELSE IF SortsAfter(sorted[Len(sorted)], e)
    THEN Append(InsertSorted(SubSeq(sorted, 1, Len(sorted) - 1), e), sorted[Len(sorted)])
    ELSE Append(sorted, e)

RECURSIVE SortByZ(_)
SortByZ(layers) ==
    IF layers = <<>> THEN <<>>
    ELSE InsertSorted(SortByZ(SubSeq(layers, 1, Len(layers) - 1)), layers[Len(layers)])

\* layers.into_iter().map(|(_, l)| l).collect()
DropZ(layers) == [i \in 1..Len(layers) |-> layers[i][2]]

\* an emitted overlay whose swapchain lookup fails: swapchains.get(key).unwrap()
MissingSwapchain(sm, map, render_skybox) ==
    \E key \in SmKeys(sm) :
        /\ Emitted(Unwrap(SmGet(sm, key)), render_skybox)
        /\ ~SecContains(map, key)

\* a layer builder that takes the rect of every overlay it emits
get_layersTakingRect(G, render_skybox) ==
    /\ fault = "none"
    /\ IF swapchains = None \/ Unwrap(swapchains).api # G
       THEN /\ ret' = Ret("get_layers", NoHandle, render_skybox, "", None)
            /\ UNCHANGED overlays
       ELSE /\ ret' = [Ret("get_layers", NoHandle, render_skybox, "", None)
                       EXCEPT !.layers =
                          DropZ(SortByZ(CollectLayers(overlays, SmIter(overlays),
                                                      render_skybox)))]
            /\ overlays' =
                  [overlays EXCEPT !.slots =
                      [i \in DOMAIN overlays.slots |->
                          LET slot == overlays.slots[i] IN
                          IF IsSome(slot.value) /\ Emitted(Unwrap(slot.value), render_skybox)
                          THEN [slot EXCEPT !.value =
                                   Some([Unwrap(slot.value) EXCEPT !.rect = None])]
                          ELSE slot]]
    /\ UNCHANGED <<key_to_overlay, skybox, swapchains, enabled_extensions, threads, image_ready, pending, fault>>

\* G: the graphics API the layers are requested for
get_layers(G, render_skybox) ==
    /\ fault = "none"
    /\ IF swapchains = None
       THEN /\ ret' = Ret("get_layers", NoHandle, render_skybox, "", None)
            /\ UNCHANGED fault
       ELSE IF Unwrap(swapchains).api # G
       THEN /\ ret' = Ret("get_layers", NoHandle, render_skybox, "fault", None)
            /\ fault' = "panic: Requested layers for API, but overlays are using a different API"
       ELSE IF MissingSwapchain(overlays, Unwrap(swapchains).map, render_skybox)
       THEN /\ ret' = Ret("get_layers", NoHandle, render_skybox, "fault", None)
            /\ fault' = "panic: unwrap of a missing swapchain"
       ELSE /\ ret' = [Ret("get_layers", NoHandle, render_skybox, "", None)
                       EXCEPT !.layers =
                          DropZ(SortByZ(CollectLayers(overlays, SmIter(overlays),
                                                      render_skybox)))]
            /\ UNCHANGED fault
    /\ UNCHANGED <<overlays, key_to_overlay, skybox, swapchains, enabled_extensions, threads, image_ready, pending>>



-----------------------------------------------------------------------------
(* The registry specification: creation, lookup and destruction of overlays, *)
(* by the caller and by the skybox manager, the caller passing any handle.   *)

Tex(eType, width) == [eType |-> eType, format |-> "rgba", width |-> width, height |-> 2]

Next ==
    \/ \E key \in Keys, name \in Names, handle_null \in BOOLEAN :
          CreateOverlay(key, name, handle_null)
    \/ \E key \in Keys, handle_null \in BOOLEAN : FindOverlay(key, handle_null)
    \/ \E handle \in Handles : DestroyOverlay(handle)
    \/ \E n \in 0..2 : SetSkybox([i \in 1..n |-> Tex("Vulkan", 2)])
    \/ ClearSkybox

Spec == Init /\ [][Next]_vars

-----------------------------------------------------------------------------
(* The property specification: every getter and setter of the interface on   *)
(* a registry of PropSlots slots shared by the caller and the skybox         *)
(* manager, the caller passing any handle: the handle of the live overlay,   *)
(* of overlays destroyed earlier, of the skybox overlay, handles never       *)
(* issued.                                                                   *)

\* slots the registry grows to under PropSpec and TexSpec
PropSlots == 1

PropHandles == [hi : 0..MaxVersion, lo : 1..PropSlots] \cup {NoHandle}

PropCreate == SmNextKey(overlays).idx <= PropSlots /\ CreateOverlay("a", "n", FALSE)

PropNext ==
    \/ PropCreate
    \/ \E handle \in PropHandles : DestroyOverlay(handle)
    \/ (SmNextKey(RemoveAll(overlays, skybox)).idx <= PropSlots
            /\ SetSkybox(<<Tex("Vulkan", 2)>>))
    \/ ClearSkybox
    \/ \E handle \in PropHandles : ShowOverlay(handle)
    \/ \E handle \in PropHandles : HideOverlay(handle)
    \/ \E handle \in PropHandles : SetOverlayAlpha(handle, 50)
    \/ \E handle \in PropHandles : SetOverlayWidthInMeters(handle, 2)
    \/ \E handle \in PropHandles : SetOverlayTexture(handle, Some(Tex("Vulkan", 2)), "proceed")
    \/ \E handle \in PropHandles :
          SetOverlayTransformAbsolute(handle, "Standing",
                                      Some(Posef(0, 100, 0, 0, 0, 0, 2000)))
    \/ \E handle \in PropHandles : GetOverlayTextureBounds(handle, FALSE)
    \/ \E handle \in PropHandles : SetOverlayTextureBounds(handle, Some(HalfBounds))
    \/ \E handle \in PropHandles : GetOverlayCurvature(handle, FALSE)
    \/ \E handle \in PropHandles : SetOverlayCurvature(handle, 200)
    \/ \E handle \in PropHandles : GetOverlayWidthInMeters(handle, FALSE)
    \/ \E handle \in PropHandles : GetOverlaySortOrder(handle, FALSE)
    \/ \E handle \in PropHandles : SetOverlaySortOrder(handle, 5)
    \/ \E handle \in PropHandles : GetOverlayAlpha(handle, FALSE)

PropSpec == AnyInit /\ [][PropNext]_vars

-----------------------------------------------------------------------------
(* The skybox specification: the skybox manager and the caller on one        *)
(* registry, with the sort order, visibility and texture of any handle set   *)
(* and the layers requested.                                                 *)

SkyboxNext ==
    \/ CreateOverlay("a", "n", FALSE)
    \/ \E n \in 1..2 : SetSkybox([i \in 1..n |-> Tex("Vulkan", 2)])
    \/ ClearSkybox
    \/ \E handle \in Handles : ShowOverlay(handle)
    \/ \E handle \in Handles : SetOverlayTexture(handle, Some(Tex("Vulkan", 2)), "proceed")
    \/ \E handle \in Handles, value \in {0, 5} : SetOverlaySortOrder(handle, value)
    \/ \E render_skybox \in BOOLEAN : get_layers("Vulkan", render_skybox)

SkyboxSpec == Init /\ [][SkyboxNext]_vars

-----------------------------------------------------------------------------
(* The texture specification: textures of either backend and of two sizes    *)
(* submitted to any handle, the texture bounds changed in between, overlays  *)
(* created and destroyed on a registry of PropSlots slots.                   *)

\* the handles CreateOverlay has issued or will issue, and handle 0
TexHandles == {handle \in PropHandles : handle.hi % 2 = 1} \cup {NoHandle}

TexNext ==
    \/ PropCreate
    \/ \E handle \in TexHandles : DestroyOverlay(handle)
    \/ \E handle \in TexHandles, texture \in Textures, ub \in {"crash", "proceed"} :
          SetOverlayTexture(handle, Some(texture), ub)
    \/ \E handle \in TexHandles, bounds \in {FullBounds, HalfBounds} :
          SetOverlayTextureBounds(handle, Some(bounds))

TexSpec == Init /\ [][TexNext]_vars

-----------------------------------------------------------------------------
(* The layer specification: get_layers on the registries the calls above     *)
(* build. Each start state is built by those calls' own operators from a     *)
(* list of up to LayerSlots choices, one per overlay in creation order: a    *)
(* caller overlay (CreateOverlay, then SetOverlaySortOrder, and ShowOverlay, *)
(* SetOverlayTexture, SetOverlayCurvature or not) or the sphere of the       *)
(* skybox (SetSkybox with one texture, then its sort order set through its   *)
(* handle or not).                                                           *)

\* overlays in the registry under LayerSpec
LayerSlots == 4

LayerKeys == <<"a", "b", "c", "d", "e", "f">>

LayerChoices ==
    [sky : {FALSE}, z_order : {3, 5}, visible : {TRUE}, textured : {TRUE}, curved : BOOLEAN]
        \cup [sky : {FALSE}, z_order : {3, 5}, visible : {FALSE}, textured : {TRUE},
              curved : {FALSE}]
        \cup [sky : {FALSE}, z_order : {3, 5}, visible : {TRUE}, textured : {FALSE},
              curved : {FALSE}]
        \cup [sky : {TRUE}, z_order : {SKYBOX_Z_ORDER, 5}, visible : {TRUE},
              textured : {TRUE}, curved : {FALSE}]

\* st = [overlays, skybox, table, index] after the calls for one choice
LayerAdd(st, i, c) ==
    LET key == SmNextKey(st.overlays)
        new == [Overlay_new(LayerKeys[i], "n") EXCEPT
                    !.z_order = c.z_order, !.visible = c.visible,
                    !.kind = IF c.curved THEN Curved(50) ELSE Quad]
        r == set_texture(new, key, st.table, Tex("Vulkan", 2), "proceed")
        sky == SkyboxAdd([overlays |-> st.overlays, skybox |-> <<>>, table |-> st.table,
                          fault |-> "none", created |-> 0],
                         "__xrizer_skybox", Tex("Vulkan", 2), SKYBOX_SIZE, Sphere, None)
    IN
    IF c.sky
    THEN [overlays |-> SmUpdate(sky.overlays, key,
                                [Unwrap(SmGet(sky.overlays, key)) EXCEPT
                                    !.z_order = c.z_order]),
          skybox |-> sky.skybox, table |-> sky.table, index |-> st.index]
    ELSE [overlays |-> SmUpdate(SmInsert(st.overlays, new), key,
                                IF c.textured THEN r.overlay ELSE new),
          skybox |-> st.skybox,
          table |-> IF c.textured THEN r.table ELSE st.table,
          index |-> IndexInsert(st.index, LayerKeys[i], key)]

RECURSIVE LayerBuild(_, _)
LayerBuild(choices, n) ==
    IF n = 0
    THEN [overlays |-> SlotMapNew, skybox |-> <<>>, table |-> None,
          index |-> [k \in {} |-> 0]]
    ELSE LayerAdd(LayerBuild(choices, n - 1), n, choices[n])

LayerInit ==
    \E n \in 1..LayerSlots : \E choices \in [1..n -> LayerChoices] :
        /\ Cardinality({i \in 1..n : choices[i].sky}) <= 1
        /\ LET st == LayerBuild(choices, n) IN
            /\ overlays = st.overlays
            /\ key_to_overlay = st.index
            /\ skybox = st.skybox
            /\ swapchains = st.table
        /\ enabled_extensions = AllExtensions
        /\ pending = <<>>
        /\ threads = [t \in 1..LockThreads |-> Idle]
        /\ image_ready = FALSE
        /\ fault = "none"
        /\ ret = Ret("new", NoHandle, "", "", None)

LayerNext == \E G \in Backends, render_skybox \in BOOLEAN : get_layers(G, render_skybox)

LayerSpec == LayerInit /\ [][LayerNext]_vars

-----------------------------------------------------------------------------
(* Vocabulary of the properties *)

\* the keys of the live overlays, and the overlay of a live key
Live == SmKeys(overlays)
OverlayOf(key) == Unwrap(SmGet(overlays, key))

\* the keys of the skybox set, and the live overlays the caller created
SkyboxSet == {skybox[i] : i \in 1..Len(skybox)}
CallerCreated == Live \ SkyboxSet

\* every key a registry has issued so far: slot versions only grow, and each
\* odd version up to the current one was the version of an occupied slot
Issued(sm) ==
    {key \in [idx : DOMAIN sm.slots, version : 1..(MaxVersion + 1)] :
        key.version % 2 = 1 /\ key.version <= sm.slots[key.idx].version}

\* the handle was issued for an overlay that has been destroyed since
StaleHandle(sm, handle) ==
    /\ KeyData(handle.lo, handle.hi) \in Issued(sm)
    /\ KeyData(handle.lo, handle.hi) \notin SmKeys(sm)

\* the handle decodes to the key of a live overlay
Registered(sm, handle) == from_ffi(handle) \in SmKeys(sm)

GetterSetterOps ==
    {"ShowOverlay", "HideOverlay", "SetOverlayAlpha", "SetOverlayWidthInMeters",
     "SetOverlayTexture", "SetOverlayTransformAbsolute", "GetOverlayTextureBounds",
     "SetOverlayTextureBounds", "GetOverlayCurvature", "SetOverlayCurvature",
     "GetOverlayWidthInMeters", "GetOverlaySortOrder", "SetOverlaySortOrder",
     "GetOverlayAlpha"}

-----------------------------------------------------------------------------
(* C1, C2, C4: the key index (Spec) *)

\* C1: the key index and the overlay table are consistent: every key of the
\* index maps to a live overlay carrying that key, and every live overlay the
\* caller created is the entry of its key in the index.
C1_IndexConsistent ==
    /\ \A k \in DOMAIN key_to_overlay :
          /\ key_to_overlay[k] \in Live
          /\ OverlayOf(key_to_overlay[k]).key = k
    /\ \A o \in CallerCreated :
          /\ OverlayOf(o).key \in DOMAIN key_to_overlay
          /\ key_to_overlay[OverlayOf(o).key] = o

C4_UniqueKeys ==
    \A o1, o2 \in CallerCreated :
        OverlayOf(o1).key = OverlayOf(o2).key => o1 = o2

-----------------------------------------------------------------------------
(* C3, C5: handles (PropSpec) *)

C5_UnregisteredHandle ==
    [][(/\ ret'.op \in GetterSetterOps \ {"SetOverlayCurvature"}
        /\ ~Registered(overlays, ret'.handle))
          => /\ ret'.status = "UnknownOverlay"
             /\ UNCHANGED <<overlays, key_to_overlay, skybox, swapchains>>
    ]_vars

\* SetOverlayAlpha on a runtime without the colour bias extension, called
\* with an unregistered handle while an overlay with a swapchain is live,
\* returned UnknownOverlay
C5_Witness ==
    /\ ret.op = "SetOverlayAlpha"
    /\ ~enabled_extensions.khr_composition_layer_color_scale_bias
    /\ ~Registered(overlays, ret.handle)
    /\ ret.status = "UnknownOverlay"
    /\ Live # {}
    /\ IsSome(swapchains)

-----------------------------------------------------------------------------
(* C6, C7: the layers (LayerSpec) *)

\* the z_order and the place in the enumeration of the overlay of a layer
LayerZ(layer) == OverlayOf(layer.base.swapchain).z_order
LayerIdx(layer) == layer.base.swapchain.idx

\* C6: the layers get_layers returns are in ascending z_order, and layers of
\* equal z_order are in the order of the overlay table's enumeration.
C6_SortedStable ==
    ret.op = "get_layers" =>
        \A i, j \in 1..Len(ret.layers) :
            i < j =>
                /\ LayerZ(ret.layers[i]) <= LayerZ(ret.layers[j])
                /\ LayerZ(ret.layers[i]) = LayerZ(ret.layers[j]) =>
                      LayerIdx(ret.layers[i]) < LayerIdx(ret.layers[j])

\* overlays enumerated with z_orders 5, -1, 3, 5 have come out as -1, 3, 5, 5
\* with the two overlays of z_order 5 in their order of enumeration
C6_Witness ==
    /\ ret.op = "get_layers"
    /\ ret.arg = TRUE
    /\ Len(ret.layers) = 4
    /\ [i \in 1..4 |-> LayerZ(ret.layers[i])] = <<SKYBOX_Z_ORDER, 3, 5, 5>>
    /\ [i \in 1..4 |-> LayerIdx(ret.layers[i])] = <<2, 3, 1, 4>>

\* a skybox overlay, as get_layers tells one: by its z_order
IsSkyboxOverlay(overlay) == overlay.z_order = SKYBOX_Z_ORDER

Shown(overlay, render_skybox) ==
    /\ overlay.visible
    /\ IsSome(overlay.rect)
    /\ ~(IsSkyboxOverlay(overlay) /\ ~render_skybox)

ShapeOfKind(kind) ==
    IF kind.type = "Quad" THEN "Quad"
    ELSE IF kind.type = "Curved" THEN "Cylinder"
    ELSE "Equirect2"

-----------------------------------------------------------------------------
(* C8: the sentinel z_order (SkyboxSpec) *)

\* C8: every overlay of the skybox set has z_order SKYBOX_Z_ORDER, and no
\* overlay the caller created has it.
C8_SentinelExclusive ==
    /\ \A key \in SkyboxSet \cap Live : OverlayOf(key).z_order = SKYBOX_Z_ORDER
    /\ \A key \in CallerCreated : OverlayOf(key).z_order # SKYBOX_Z_ORDER

-----------------------------------------------------------------------------
(* C9, C10: texture submission (TexSpec) *)

\* C9: a submission that returned without error was of a texture of the
\* backend the overlay is bound to: a texture of another backend than the one
\* of the overlay's first submission is never accepted.
C9_ConflictSurfaces ==
    (ret.op = "SetOverlayTexture" /\ ret.status = "None") =>
        OverlayOf(from_ffi(ret.handle)).compositor = Some(Unwrap(ret.arg).eType)

\* what a stored swapchain was created for still is what the texture requires
Unchanged(data, need) ==
    /\ data.initial_format = need.format
    /\ data.info.width = need.width
    /\ data.info.height = need.height

\* C10: a submission to an overlay that has a swapchain whose format and
\* extent still are what the texture requires creates no swapchain and keeps
\* the stored one; a submission that requires another extent replaces the
\* stored swapchain by exactly one new one of that extent; and the first
\* submission for an overlay creates exactly one.
C10_SwapchainReuse ==
    [][(ret'.op = "SetOverlayTexture" /\ ret'.status = "None") =>
          LET key == from_ffi(ret'.handle)
              need == swapchain_info_for_texture(
                          Unwrap(ret'.arg), Unwrap(SmGet(overlays, key)).bounds)
              has == IsSome(swapchains) /\ SecContains(Unwrap(swapchains).map, key)
              old == Unwrap(swapchains).map[key.idx].value
              new == Unwrap(swapchains').map[key.idx].value
          IN
          /\ SecContains(Unwrap(swapchains').map, key)
          /\ IF has /\ Unchanged(old, need)
             THEN ret'.created = 0 /\ new = old
             ELSE /\ ret'.created = 1
                  /\ new.info.width = need.width
                  /\ new.info.height = need.height
                  /\ new.initial_format = need.format
    ]_vars

\* a texture of the larger size was submitted to an overlay whose swapchain
\* had been made for that size, and no swapchain was created
C10_Witness ==
    /\ ret.op = "SetOverlayTexture"
    /\ ret.status = "None"
    /\ ret.created = 0
    /\ Unwrap(ret.arg).width = 4

-----------------------------------------------------------------------------
(* C11: the swapchain table and the overlays' lifetime (TexSpec) *)

\* the keys that have a swapchain in the session's table
TableKeys ==
    IF IsSome(swapchains)
    THEN {KeyData(idx, Unwrap(swapchains).map[idx].version) :
             idx \in DOMAIN Unwrap(swapchains).map}
    ELSE {}

\* C11: every entry of the session's swapchain table belongs to a live
\* overlay: once an overlay is destroyed, the table holds no swapchain for it.
C11_TableEntriesLive == TableKeys \subseteq Live

-----------------------------------------------------------------------------
(* C12: the backend tag of the swapchain table (TableSpec) *)

\* the handles CreateOverlay and set_skybox issue on MaxSlots slots, and
\* handle 0
TableHandles == {handle \in Handles : handle.hi % 2 = 1 /\ handle.lo >= 1} \cup {NoHandle}

\* textures of either backend submitted by the caller and by the skybox
\* manager, overlays shown, created and destroyed, and the layers requested
\* for either API
TableNext ==
    \/ CreateOverlay("a", "n", FALSE)
    \/ \E handle \in TableHandles : DestroyOverlay(handle)
    \/ \E handle \in TableHandles, eType \in Backends, ub \in {"crash", "proceed"} :
          SetOverlayTexture(handle, Some(Tex(eType, 2)), ub)
    \/ \E handle \in TableHandles : ShowOverlay(handle)
    \/ \E eType \in Backends : SetSkybox(<<Tex(eType, 2)>>)
    \/ ClearSkybox
    \/ \E G \in Backends, render_skybox \in BOOLEAN : get_layers(G, render_skybox)

TableSpec == Init /\ [][TableNext]_vars

\* the backend tag of the session's table
TableApi(table) == Unwrap(table).api

\* C12: the backend tag of the swapchain table is fixed by the first texture
\* submission and never changes afterwards; a submission whose overlay is
\* bound to another backend than the tag, by the caller or by the skybox
\* manager, faults and leaves the table as it is; a request of the layers
\* for another API than the tag faults; and while there is no table the
\* layers requested are the empty list.
C12_TagFixed ==
    [][LET op == ret'.op
           found == Lookup(ret'.handle)
       IN
       /\ IsSome(swapchains) =>
             /\ IsSome(swapchains')
             /\ TableApi(swapchains') = TableApi(swapchains)
       /\ (~IsSome(swapchains) /\ IsSome(swapchains')) =>
             \/ /\ op = "SetOverlayTexture"
                /\ TableApi(swapchains') = BackendFor(Unwrap(found), Unwrap(ret'.arg))
                /\ Unwrap(swapchains').map # SecMapNew
             \/ /\ op = "SetSkybox"
                /\ TableApi(swapchains') = ret'.arg[1].eType
                /\ Unwrap(swapchains').map # SecMapNew
       /\ (/\ op = "SetOverlayTexture"
           /\ IsSome(found)
           /\ IsSome(swapchains)
           /\ BackendFor(Unwrap(found), Unwrap(ret'.arg)) # TableApi(swapchains)) =>
             /\ ret'.status = "fault"
             /\ fault' = "panic: Received different texture type for overlay than current"
             /\ swapchains' = swapchains
       /\ (/\ op = "SetSkybox"
           /\ IsSome(swapchains)
           /\ ret'.arg[1].eType # TableApi(swapchains)) =>
             /\ ret'.status = "fault"
             /\ fault' = "panic: Received different texture type for overlay than current"
             /\ swapchains' = swapchains
       /\ \A G \in Backends :
             (/\ \E render_skybox \in BOOLEAN : get_layers(G, render_skybox)
              /\ IsSome(swapchains)
              /\ TableApi(swapchains) # G) =>
                /\ ret'.status = "fault"
                /\ fault' = "panic: Requested layers for API, but overlays are using a different API"
                /\ ret'.layers = <<>>
       /\ (op = "get_layers" /\ ~IsSome(swapchains)) =>
             /\ ret'.status = ""
             /\ ret'.layers = <<>>
             /\ fault' = "none"
    ]_vars

\* a second overlay, bound to the other backend by its first texture, has
\* submitted that texture to a table that holds a swapchain of the first
C12_Witness ==
    /\ ret.op = "SetOverlayTexture"
    /\ ret.status = "fault"
    /\ fault = "panic: Received different texture type for overlay than current"
    /\ IsSome(swapchains)
    /\ TableKeys # {}
    /\ TableApi(swapchains) # Unwrap(ret.arg).eType

-----------------------------------------------------------------------------
(* The cube specification: the skybox manager given one, two or six          *)
(* textures, each of its own size, on a registry the caller creates,         *)
(* looks up and destroys overlays in, under the keys the skybox manager      *)
(* names its own overlays with among others.                                 *)

CubeKeys == {"a", "__xrizer_skybox", "__xrizer_skybox_0"}

\* six textures of six sizes, and two of two sizes
CubeTextures == [i \in 1..6 |-> Tex("Vulkan", i + 1)]
SphereTextures == {<<Tex("Vulkan", 2)>>, <<Tex("Vulkan", 4), Tex("Vulkan", 2)>>}

\* the handles of the slot the caller's first overlay is created in, and of
\* the slot next to it
CubeHandles == {handle \in TableHandles : handle.hi = 1}

CubeNext ==
    \/ \E key \in CubeKeys : CreateOverlay(key, "n", FALSE)
    \/ \E key \in CubeKeys : FindOverlay(key, FALSE)
    \/ \E handle \in CubeHandles : DestroyOverlay(handle)
    \/ \E textures \in SphereTextures \cup {CubeTextures} : SetSkybox(textures)
    \/ ClearSkybox

CubeSpec == Init /\ [][CubeNext]_vars

-----------------------------------------------------------------------------
(* C13, C14: what set_skybox builds (CubeSpec) *)

\* the rect set_texture resolves for a texture submitted with the default
\* bounds: the whole texture
WholeRect(texture) ==
    Some([offset |-> [x |-> 0, y |-> 0],
          extent |-> [width |-> texture.width, height |-> texture.height]])

\* the positions of the six faces in the order of the textures: front, back,
\* left, right, up, down (hundredths of a metre)
FacePositions ==
    << [x |-> 0, y |-> 0, z |-> -50000], [x |-> 0, y |-> 0, z |-> 50000],
       [x |-> -50000, y |-> 0, z |-> 0], [x |-> 50000, y |-> 0, z |-> 0],
       [x |-> 0, y |-> 50000, z |-> 0], [x |-> 0, y |-> -50000, z |-> 0] >>

\* C13: when SetSkybox with six textures has completed, the skybox set holds
\* six distinct live overlays, each visible, a Quad 1000 wide with the
\* sentinel z-order, its rect resolved from the texture of its own position
\* in the list, and a Standing transform at its face's position, 500 m from
\* the origin along one axis (front -z, back +z, left -x, right +x, up +y,
\* down -y); and a ClearSkybox that follows leaves the set empty and none of
\* the six overlays live.
C13_SixFaces ==
    [][/\ (ret'.op = "SetSkybox" /\ Len(ret'.arg) = 6 /\ ret'.status = "") =>
             /\ Len(skybox') = 6
             /\ \A i, j \in 1..6 : skybox'[i] = skybox'[j] => i = j
             /\ \A i \in 1..6 :
                   /\ skybox'[i] \in SmKeys(overlays')
                   /\ LET overlay == Unwrap(SmGet(overlays', skybox'[i])) IN
                      /\ overlay.visible
                      /\ overlay.kind = Quad
                      /\ overlay.width = 1000
                      /\ overlay.z_order = SKYBOX_Z_ORDER
                      /\ overlay.rect = WholeRect(ret'.arg[i])
                      /\ IsSome(overlay.transform)
                      /\ Unwrap(overlay.transform).origin = "Standing"
                      /\ Unwrap(overlay.transform).pose.position = FacePositions[i]
       /\ (/\ ret.op = "SetSkybox" /\ Len(ret.arg) = 6 /\ ret.status = ""
           /\ ret'.op = "ClearSkybox") =>
             /\ skybox' = <<>>
             /\ \A i \in 1..6 : skybox[i] \notin SmKeys(overlays')
    ]_vars

\* the six faces have been built in a registry that holds an overlay of the
\* caller, in slots a sphere and its predecessor had used
C13_Witness ==
    /\ ret.op = "SetSkybox"
    /\ Len(ret.arg) = 6
    /\ ret.status = ""
    /\ Len(skybox) = 6
    /\ CallerCreated # {}
    /\ \E i \in 1..6 : skybox[i].version = 3


\* the entry of the swapchain table under a key
TableEntry(table, key) == Unwrap(table).map[key.idx]

\* C14: when SetSkybox with one or two textures has completed, the skybox
\* set holds exactly one live overlay: a visible Sphere 500 wide with the
\* sentinel z-order whose rect and whose one new swapchain are those of the
\* first texture; the second texture is submitted to no overlay: every other
\* overlay and every other entry of the swapchain table is as it was.
C14_OneSphere ==
    [][(ret'.op = "SetSkybox" /\ Len(ret'.arg) \in 1..2 /\ ret'.status = "") =>
          /\ Len(skybox') = 1
          /\ skybox'[1] \in SmKeys(overlays')
          /\ LET overlay == Unwrap(SmGet(overlays', skybox'[1])) IN
             /\ overlay.kind = Sphere
             /\ overlay.width = 500
             /\ overlay.visible
             /\ overlay.z_order = SKYBOX_Z_ORDER
             /\ overlay.rect = WholeRect(ret'.arg[1])
          /\ ret'.created = 1
          /\ TableEntry(swapchains', skybox'[1]).version = skybox'[1].version
          /\ TableEntry(swapchains', skybox'[1]).value =
                create_swapchain(ret'.arg[1], FullBounds)
          /\ \A key \in SmKeys(overlays') \ {skybox'[1]} :
                /\ key \in SmKeys(overlays)
                /\ SmGet(overlays', key) = SmGet(overlays, key)
          /\ IsSome(swapchains) =>
                \A idx \in DOMAIN Unwrap(swapchains).map \ {skybox'[1].idx} :
                    Unwrap(swapchains').map[idx] = Unwrap(swapchains).map[idx]
          /\ DOMAIN Unwrap(swapchains').map \subseteq
                {skybox'[1].idx} \cup
                    (IF IsSome(swapchains) THEN DOMAIN Unwrap(swapchains).map ELSE {})
    ]_vars

\* the sphere has been built from two textures of different sizes, in the
\* slot the sphere before it had used, beside an overlay of the caller
C14_Witness ==
    /\ ret.op = "SetSkybox"
    /\ Len(ret.arg) = 2
    /\ ret.arg[1] # ret.arg[2]
    /\ ret.status = ""
    /\ Len(skybox) = 1
    /\ skybox[1].version = 3
    /\ CallerCreated # {}

-----------------------------------------------------------------------------
(* The thread specification: SetSkybox and ClearSkybox called from up to     *)
(* MaxThreads threads, each critical section one step.                       *)

ThreadNext ==
    \/ \E textures \in SphereTextures \cup {CubeTextures} : SetSkyboxClear(textures)
    \/ \E i \in 1..MaxThreads : SetSkyboxBuild(i)
    \/ ClearSkybox

ThreadSpec == Init /\ [][ThreadNext]_vars

-----------------------------------------------------------------------------
(* C15: SetSkybox replaces the skybox (ThreadSpec) *)

\* C15: once a SetSkybox has completed and no other skybox call is in
\* progress, the skybox set holds the overlays of that one call, one for one
\* or two textures and six for six, and no other skybox overlay is live,
\* whatever the interleaving of the SetSkybox and ClearSkybox calls before.
C15_FullReplace ==
    (ret.op = "SetSkybox" /\ ret.status = "" /\ pending = <<>>) =>
        /\ Len(skybox) = SkyboxInserts(Len(ret.arg))
        /\ Live = SkyboxSet

-----------------------------------------------------------------------------
(* C16, C17: the skybox set beside the caller's overlays (CubeSpec) *)

\* the slots of the registry that hold no overlay
FreeSlots == {idx \in DOMAIN overlays.slots \ {0} : ~IsSome(overlays.slots[idx].value)}

\* C16: ClearSkybox removes every overlay listed in the skybox set and leaves
\* the set empty; the overlays the caller created stay live and unchanged,
\* no overlay appears, and the key index is unchanged; a ClearSkybox right
\* after a ClearSkybox changes nothing.
C16_ClearFrame ==
    [][ret'.op = "ClearSkybox" =>
          /\ skybox' = <<>>
          /\ \A key \in SkyboxSet : key \notin SmKeys(overlays')
          /\ SmKeys(overlays') = CallerCreated
          /\ \A key \in CallerCreated : SmGet(overlays', key) = SmGet(overlays, key)
          /\ key_to_overlay' = key_to_overlay
          /\ ret.op = "ClearSkybox" =>
                /\ overlays' = overlays
                /\ skybox' = skybox
                /\ swapchains' = swapchains
    ]_vars

\* the six faces have been cleared from a registry in which an overlay of
\* the caller, found under its key, stays
C16_Witness ==
    /\ ret.op = "ClearSkybox"
    /\ skybox = <<>>
    /\ Cardinality(FreeSlots) = 6
    /\ Cardinality(Live) = 1
    /\ \E k \in DOMAIN key_to_overlay : key_to_overlay[k] \in Live


\* C17: FindOverlay never returns the handle of an overlay of the skybox
\* set, whatever the key, the keys the skybox manager names its overlays
\* with included: no entry of the key index is a key of the set; and
\* SetSkybox and ClearSkybox leave the key index as it is.
C17_SkyboxUndiscoverable ==
    [][/\ \A k \in DOMAIN key_to_overlay' : key_to_overlay'[k] \notin SkyboxSet'
       /\ (ret'.op = "FindOverlay" /\ IsSome(ret'.out)) =>
             from_ffi(Unwrap(ret'.out)) \notin SkyboxSet'
       /\ ret'.op \in {"SetSkybox", "ClearSkybox"} => key_to_overlay' = key_to_overlay
    ]_vars

\* with the sphere live, FindOverlay under the sphere's name has returned the
\* handle of the overlay the caller created under that key
C17_Witness ==
    /\ ret.op = "FindOverlay"
    /\ ret.arg = "__xrizer_skybox"
    /\ ret.status = "None"
    /\ Len(skybox) = 1
    /\ skybox[1] \in Live
    /\ OverlayOf(skybox[1]).key = "__xrizer_skybox"
    /\ from_ffi(Unwrap(ret.out)) \in CallerCreated

-----------------------------------------------------------------------------
(* C18: SetSkybox with an unsupported number of textures (Spec) *)

\* C18: a SetSkybox with a number of textures other than 1, 2 or 6 does not
\* end the process: the call returns and no fault is raised.
C18_BadCountNoFault ==
    (ret.op = "SetSkybox" /\ Len(ret.arg) \notin {1, 2, 6}) =>
        /\ ret.status # "fault"
        /\ fault = "none"

-----------------------------------------------------------------------------
(* The capability specification: curvature and alpha set and read through    *)
(* any handle, and the layers requested, on a runtime with the cylinder and  *)
(* colour scale/bias extensions and on one without, for an overlay of the    *)
(* caller or the sphere of the skybox in a registry of PropSlots slots.      *)

CapNext ==
    \/ PropCreate
    \/ \E handle \in PropHandles : DestroyOverlay(handle)
    \/ (SmNextKey(RemoveAll(overlays, skybox)).idx <= PropSlots
            /\ SetSkybox(<<Tex("Vulkan", 2)>>))
    \/ \E handle \in PropHandles : ShowOverlay(handle)
    \/ \E handle \in PropHandles : SetOverlayTexture(handle, Some(Tex("Vulkan", 2)), "proceed")
    \/ \E handle \in PropHandles, alpha \in {50, 100} : SetOverlayAlpha(handle, alpha)
    \/ \E handle \in PropHandles : GetOverlayAlpha(handle, FALSE)
    \/ \E handle \in PropHandles, value \in {50, 200} : SetOverlayCurvature(handle, value)
    \/ \E handle \in PropHandles : GetOverlayCurvature(handle, FALSE)
    \/ \E render_skybox \in BOOLEAN : get_layers("Vulkan", render_skybox)

CapSpec == AnyInit /\ [][CapNext]_vars

-----------------------------------------------------------------------------
(* C19, C20: the capability-gated setters (CapSpec) *)

\* C19: SetOverlayCurvature takes effect only on a runtime with the cylinder
\* capability, where it makes the overlay of a registered handle Curved with
\* the value clamped to [0, 1]. Without the capability it returns None for
\* every handle and every value and changes no overlay, so no overlay is
\* Curved and GetOverlayCurvature returns 0.
C19_CurvatureGated ==
    [][IF enabled_extensions.khr_composition_layer_cylinder
       THEN (ret'.op = "SetOverlayCurvature" /\ Registered(overlays, ret'.handle)) =>
               /\ ret'.status = "None"
               /\ Unwrap(SmGet(overlays', from_ffi(ret'.handle))).kind =
                     Curved(IF ret'.arg > 100 THEN 100 ELSE ret'.arg)
       ELSE /\ ret'.op = "SetOverlayCurvature" =>
                  /\ ret'.status = "None"
                  /\ overlays' = overlays
            /\ \A key \in SmKeys(overlays') :
                  Unwrap(SmGet(overlays', key)).kind.type # "Curved"
            /\ (ret'.op = "GetOverlayCurvature" /\ ret'.status = "None") =>
                  ret'.out = Some(0)
    ]_vars

\* without the capability, SetOverlayCurvature has returned None for the
\* handle of a live overlay
C19_Witness ==
    /\ ~enabled_extensions.khr_composition_layer_cylinder
    /\ ret.op = "SetOverlayCurvature"
    /\ ret.status = "None"
    /\ Registered(overlays, ret.handle)
    /\ OverlayOf(from_ffi(ret.handle)).kind = Quad


\* C20: on a runtime without the blend-bias capability, SetOverlayAlpha on a
\* registered handle returns None and changes no overlay, so the alpha of
\* every overlay is unset, GetOverlayAlpha returns 1.0, and no layer
\* get_layers builds carries a colour scale/bias payload.
C20_AlphaGated ==
    [][~enabled_extensions.khr_composition_layer_color_scale_bias =>
          /\ (ret'.op = "SetOverlayAlpha" /\ Registered(overlays, ret'.handle)) =>
                /\ ret'.status = "None"
                /\ overlays' = overlays
          /\ \A key \in SmKeys(overlays') : Unwrap(SmGet(overlays', key)).alpha = None
          /\ (ret'.op = "GetOverlayAlpha" /\ ret'.status = "None") =>
                ret'.out = Some(100)
          /\ ret'.op = "get_layers" =>
                \A i \in 1..Len(ret'.layers) : ret'.layers[i].base.color_bias_khr = None
    ]_vars

\* without the capability, SetOverlayAlpha with 0.5 has returned None for
\* the handle of a shown overlay with a texture, which get_layers emits
C20_Witness ==
    /\ ~enabled_extensions.khr_composition_layer_color_scale_bias
    /\ ret.op = "SetOverlayAlpha"
    /\ ret.arg = 50
    /\ ret.status = "None"
    /\ Registered(overlays, ret.handle)
    /\ Emitted(OverlayOf(from_ffi(ret.handle)), TRUE)

-----------------------------------------------------------------------------
(* C21: alpha 1.0 (CapSpec) *)

\* C21: on a runtime with the blend-bias capability, SetOverlayAlpha with
\* 1.0 on a registered handle leaves the overlay as it would be had its alpha
\* never been set, whatever alpha was stored: the stored alpha is unset as in
\* a new overlay and nothing else changes; GetOverlayAlpha returns 1.0 for an
\* overlay whose alpha is unset; and each layer get_layers builds carries the
\* payload of its overlay's stored alpha, none when it is unset.
C21_AlphaOneUnsets ==
    [][/\ (/\ enabled_extensions.khr_composition_layer_color_scale_bias
           /\ ret'.op = "SetOverlayAlpha"
           /\ ret'.arg = 100
           /\ Registered(overlays, ret'.handle)) =>
             /\ ret'.status = "None"
             /\ Unwrap(SmGet(overlays', from_ffi(ret'.handle))) =
                   [OverlayOf(from_ffi(ret'.handle)) EXCEPT
                       !.alpha = Overlay_new("", "").alpha]
             /\ Unwrap(SmGet(overlays', from_ffi(ret'.handle))).alpha = None
       /\ (/\ ret'.op = "GetOverlayAlpha"
           /\ ret'.status = "None"
           /\ OverlayOf(from_ffi(ret'.handle)).alpha = None) =>
             ret'.out = Some(100)
       /\ ret'.op = "get_layers" =>
             \A i \in 1..Len(ret'.layers) :
                ret'.layers[i].base.color_bias_khr =
                    OverlayOf(ret'.layers[i].base.swapchain).alpha
    ]_vars

\* SetOverlayAlpha with 1.0 has unset the alpha of a shown overlay with a
\* texture on a runtime with the capability
C21_Witness ==
    /\ enabled_extensions.khr_composition_layer_color_scale_bias
    /\ ret.op = "SetOverlayAlpha"
    /\ ret.arg = 100
    /\ ret.status = "None"
    /\ Registered(overlays, ret.handle)
    /\ OverlayOf(from_ffi(ret.handle)).alpha = None
    /\ Emitted(OverlayOf(from_ffi(ret.handle)), TRUE)

-----------------------------------------------------------------------------
(* The curvature specification: curvatures below, inside and above [0, 1]    *)
(* and the f32 that is not a number set through any issued handle on a       *)
(* runtime with the cylinder extension, read back, and the layers requested. *)

Curvatures == {-100, 0, 50, 200, NaN}

CurveNext ==
    \/ PropCreate
    \/ \E handle \in TexHandles : DestroyOverlay(handle)
    \/ \E handle \in TexHandles : ShowOverlay(handle)
    \/ \E handle \in TexHandles : SetOverlayTexture(handle, Some(Tex("Vulkan", 2)), "proceed")
    \/ \E handle \in TexHandles, value \in Curvatures : SetOverlayCurvature(handle, value)
    \/ \E handle \in TexHandles : GetOverlayCurvature(handle, FALSE)
    \/ get_layers("Vulkan", FALSE)

CurveSpec == Init /\ [][CurveNext]_vars

-----------------------------------------------------------------------------
(* C22, C23: the curvature stored and the layer built from it (CurveSpec) *)

\* C22: with the cylinder capability, SetOverlayCurvature on a registered
\* handle stores the value clamped to [0, 1] whatever the input: 1.0 for a
\* value above 1, 0.0 for a value below 0, the value itself otherwise, and
\* GetOverlayCurvature reads the stored value back; so the curvature of every
\* Curved overlay lies in [0, 1].
C22_CurvatureClamped ==
    [][/\ (ret'.op = "SetOverlayCurvature" /\ Registered(overlays, ret'.handle)) =>
             /\ ret'.status = "None"
             /\ Unwrap(SmGet(overlays', from_ffi(ret'.handle))).kind =
                   Curved(IF Lt(100, ret'.arg) THEN 100
                          ELSE IF Lt(ret'.arg, 0) THEN 0 ELSE ret'.arg)
       /\ (ret'.op = "GetOverlayCurvature" /\ ret'.status = "None"
             /\ OverlayOf(from_ffi(ret'.handle)).kind.type = "Curved") =>
             ret'.out = Some(OverlayOf(from_ffi(ret'.handle)).kind.curvature)
       /\ \A key \in SmKeys(overlays') :
             LET kind == Unwrap(SmGet(overlays', key)).kind IN
             kind.type = "Curved" => Le(0, kind.curvature) /\ Le(kind.curvature, 100)
    ]_vars


\* C23: get_layers treats curvature 0 as not curved: the layer of an overlay
\* whose curvature is 0 is a flat quad sized from the width, and every
\* cylinder layer is built from a curvature that is not 0 or below, so that
\* no radius width / (2 pi curvature) has a zero divisor.
C23_ZeroCurvatureFlat ==
    ret.op = "get_layers" =>
        \A i \in 1..Len(ret.layers) :
            LET layer == ret.layers[i]
                overlay == OverlayOf(layer.base.swapchain)
            IN
            /\ (overlay.kind.type = "Curved" /\ overlay.kind.curvature = 0) =>
                  /\ layer.shape = "Quad"
                  /\ layer.size.width = overlay.width * 100
            /\ layer.shape = "Cylinder" =>
                  /\ layer.radius.den # 0
                  /\ ~Le(overlay.kind.curvature, 0)

-----------------------------------------------------------------------------
(* The pointer specification: every call that takes a pointer, with the      *)
(* pointer null and not null, through any issued handle.                     *)

PointerNext ==
    \/ PropCreate
    \/ CreateOverlay("a", "n", TRUE)
    \/ \E handle_null \in BOOLEAN : FindOverlay("a", handle_null)
    \/ \E handle \in TexHandles : DestroyOverlay(handle)
    \/ \E handle \in TexHandles, texture \in {None, Some(Tex("Vulkan", 2))} :
          SetOverlayTexture(handle, texture, "proceed")
    \/ \E handle \in TexHandles,
          transform \in {None, Some(Posef(0, 100, 0, 0, 0, 0, 2000))} :
          SetOverlayTransformAbsolute(handle, "Standing", transform)
    \/ \E handle \in TexHandles, bounds_null \in BOOLEAN :
          GetOverlayTextureBounds(handle, bounds_null)
    \/ \E handle \in TexHandles, bounds \in {None, Some(HalfBounds)} :
          SetOverlayTextureBounds(handle, bounds)
    \/ \E handle \in TexHandles, value_null \in BOOLEAN :
          GetOverlayCurvature(handle, value_null)
    \/ \E handle \in TexHandles, value_null \in BOOLEAN :
          GetOverlayWidthInMeters(handle, value_null)
    \/ \E handle \in TexHandles, value_null \in BOOLEAN :
          GetOverlaySortOrder(handle, value_null)
    \/ \E handle \in TexHandles, value_null \in BOOLEAN :
          GetOverlayAlpha(handle, value_null)

PointerSpec == Init /\ [][PointerNext]_vars

-----------------------------------------------------------------------------
(* C24: null pointers (PointerSpec) *)

\* the calls that write a value through an out-pointer
ValueGetterOps ==
    {"GetOverlayCurvature", "GetOverlayWidthInMeters", "GetOverlaySortOrder",
     "GetOverlayAlpha"}

\* the registry, the skybox set and the swapchain table are as they were and
\* the process runs
NoEffect ==
    /\ UNCHANGED <<overlays, key_to_overlay, skybox, swapchains>>
    /\ fault' = "none"

\* C24: a call given a null pointer where it requires one returns
\* InvalidParameter, raises no fault and changes no state: CreateOverlay and
\* FindOverlay with a null handle pointer, and on a registered handle
\* SetOverlayTexture with a null texture, SetOverlayTransformAbsolute with a
\* null transform, GetOverlayTextureBounds and SetOverlayTextureBounds with
\* null bounds, and GetOverlayCurvature, GetOverlayWidthInMeters,
\* GetOverlaySortOrder and GetOverlayAlpha with a null value pointer.
C24_NullPointerRejected ==
    [][LET op == ret'.op
           registered == Registered(overlays, ret'.handle)
       IN
       /\ (CreateOverlay("a", "n", TRUE) \/ FindOverlay("a", TRUE)) =>
             ret'.status = "InvalidParameter" /\ NoEffect
       /\ (/\ op \in {"SetOverlayTexture", "SetOverlayTransformAbsolute",
                      "SetOverlayTextureBounds"}
           /\ registered
           /\ ret'.arg = None) =>
             ret'.status = "InvalidParameter" /\ NoEffect
       /\ (op = "GetOverlayTextureBounds" /\ registered /\ ret'.arg = TRUE) =>
             ret'.status = "InvalidParameter" /\ NoEffect
       /\ (op \in ValueGetterOps /\ registered /\ ret'.arg = TRUE) =>
             ret'.status = "InvalidParameter" /\ NoEffect
    ]_vars

-----------------------------------------------------------------------------
(* C25: DestroyOverlay on an unregistered handle (Spec) *)

\* C25: DestroyOverlay with a handle that is not registered, never issued or
\* destroyed already, returns UnknownOverlay and leaves the overlay table and
\* the key index as they were.
C25_DestroyUnknown ==
    [][(ret'.op = "DestroyOverlay" /\ ~Registered(overlays, ret'.handle)) =>
          /\ ret'.status = "UnknownOverlay"
          /\ overlays' = overlays
          /\ key_to_overlay' = key_to_overlay
    ]_vars

-----------------------------------------------------------------------------
(* C26: the defaults of a new overlay (CapSpec) *)

\* C26: the overlay CreateOverlay returns is not visible, 1.0 wide, a Quad,
\* of z-order 0, with alpha unset, texture bounds [0,1]x[0,1], no transform,
\* no backend and no rect; GetOverlayCurvature returns 0 and GetOverlayAlpha
\* 1.0 for it; and get_layers emits no layer for it: every layer emitted is
\* that of an overlay that is shown and has the rect a texture submission
\* resolved.
C26_Defaults ==
    [][/\ (ret'.op = "CreateOverlay" /\ ret'.status = "None") =>
             LET overlay == Unwrap(SmGet(overlays', from_ffi(Unwrap(ret'.out)))) IN
             /\ ~overlay.visible
             /\ overlay.width = 1
             /\ overlay.kind = [type |-> "Quad", curvature |-> 0]
             /\ overlay.z_order = 0
             /\ overlay.alpha = None
             /\ overlay.bounds = [uMin |-> 0, vMin |-> 0, uMax |-> 100, vMax |-> 100]
             /\ overlay.transform = None
             /\ overlay.compositor = None
             /\ overlay.rect = None
       /\ (/\ ret.op = "CreateOverlay" /\ ret.status = "None"
           /\ ret'.handle = Unwrap(ret.out)) =>
             /\ ret'.op = "GetOverlayCurvature" =>
                   ret'.status = "None" /\ ret'.out = Some(0)
             /\ ret'.op = "GetOverlayAlpha" =>
                   ret'.status = "None" /\ ret'.out = Some(100)
       /\ (ret.op = "CreateOverlay" /\ ret.status = "None" /\ ret'.op = "get_layers") =>
             \A i \in 1..Len(ret'.layers) :
                ret'.layers[i].base.swapchain # from_ffi(Unwrap(ret.out))
       /\ ret'.op = "get_layers" =>
             \A i \in 1..Len(ret'.layers) :
                LET overlay == OverlayOf(ret'.layers[i].base.swapchain) IN
                overlay.visible /\ IsSome(overlay.rect)
    ]_vars

\* CreateOverlay has returned an overlay in a slot whose earlier overlay,
\* destroyed since, had a texture: the table still holds that swapchain
C26_Witness ==
    /\ ret.op = "CreateOverlay"
    /\ ret.status = "None"
    /\ Unwrap(ret.out).hi = 3
    /\ from_ffi(Unwrap(ret.out)) \in Live
    /\ TableKeys # {}

-----------------------------------------------------------------------------
(* Locks: overlays, key_to_overlay and skybox are RwLocks of the manager,
   swapchains is the Mutex of the session's overlay data.  Each call is
   followed as the sequence of lock acquisitions, swapchain calls and guard
   drops its code performs; the branch a call takes is chosen when it
   starts, and the data the call computes is left to the other
   specifications. *)

LockThreadIds == 1..LockThreads

Lock(lock, mode) == [do |-> "lock", lock |-> lock, mode |-> mode]
Unlock(lock) == [do |-> "unlock", lock |-> lock, mode |-> "none"]
Do(what) == [do |-> what, lock |-> "none", mode |-> "none"]

\* the swapchain calls of one submission, in the order of the code
SwapchainCycle ==
    <<"acquire_image", "wait_image", "copy_overlay_to_swapchain", "release_image">>

\* a submission that lets go of the swapchain table before its swapchain calls
set_textureStepsUnlocked ==
    <<Lock("swapchains", "mutex"), Unlock("swapchains"),
      Do("acquire_image"), Do("wait_image"),
      Do("copy_overlay_to_swapchain"), Do("release_image")>>

\* Overlay::set_texture: the guard of the swapchain table lives to the end of
\* the function, across the four swapchain calls
set_textureSteps ==
    <<Lock("swapchains", "mutex"),
      Do("acquire_image"), Do("wait_image"),
      Do("copy_overlay_to_swapchain"), Do("release_image"),
      Unlock("swapchains")>>

RECURSIVE Repeat(_, _)
Repeat(steps, n) == IF n = 0 THEN <<>> ELSE steps \o Repeat(steps, n - 1)

clear_skyboxSteps ==
    <<Lock("overlays", "write"), Lock("skybox", "write"),
      Unlock("skybox"), Unlock("overlays")>>

\* set_skybox with one sphere texture or six cube faces
set_skyboxSteps(n) ==
    clear_skyboxSteps
    \o <<Lock("overlays", "write"), Lock("skybox", "write")>>
    \o Repeat(set_textureSteps, n)
    \o <<Unlock("skybox"), Unlock("overlays")>>

\* layer building that takes the swapchain table before the registry
get_layersStepsTableFirst ==
    { <<Lock("swapchains", "mutex"), Lock("overlays", "write"),
        Unlock("overlays"), Unlock("swapchains")>>,
      <<Lock("swapchains", "mutex"), Lock("overlays", "write"), Do("walk"),
        Unlock("overlays"), Unlock("swapchains")>> }

\* get_layers: both guards are locals of the function; it returns at once
\* when no swapchain table exists and walks the overlays otherwise
get_layersSteps ==
    { <<Lock("overlays", "write"), Lock("swapchains", "mutex"),
        Unlock("swapchains"), Unlock("overlays")>>,
      <<Lock("overlays", "write"), Lock("swapchains", "mutex"), Do("walk"),
        Unlock("swapchains"), Unlock("overlays")>> }

CreateOverlaySteps ==
    { <<Lock("overlays", "write"), Lock("key_to_overlay", "write"),
        Unlock("key_to_overlay"), Unlock("overlays")>> }

FindOverlaySteps ==
    { <<Lock("key_to_overlay", "read"), Unlock("key_to_overlay")>> }

\* DestroyOverlay locks the index only when the handle named an overlay
DestroyOverlaySteps ==
    { <<Lock("overlays", "write"), Unlock("overlays")>>,
      <<Lock("overlays", "write"), Lock("key_to_overlay", "write"),
        Unlock("key_to_overlay"), Unlock("overlays")>> }

\* get_overlay!(self, handle, overlay) and get_overlay!(self, handle, mut overlay)
GetterSteps == { <<Lock("overlays", "read"), Unlock("overlays")>> }
SetterSteps == { <<Lock("overlays", "write"), Unlock("overlays")>> }

\* SetOverlayTexture: unknown handle or null texture, or a submission
SetOverlayTextureSteps ==
    { <<Lock("overlays", "write"), Unlock("overlays")>>,
      <<Lock("overlays", "write")>> \o set_textureSteps \o <<Unlock("overlays")>> }

LockOps ==
    {"CreateOverlay", "FindOverlay", "DestroyOverlay", "Getter", "Setter",
     "SetOverlayTexture", "SetSkybox", "ClearSkybox", "get_layers"}

StepsOf(op) ==
    CASE op = "CreateOverlay" -> CreateOverlaySteps
      [] op = "FindOverlay" -> FindOverlaySteps
      [] op = "DestroyOverlay" -> DestroyOverlaySteps
      [] op = "Getter" -> GetterSteps
      [] op = "Setter" -> SetterSteps
      [] op = "SetOverlayTexture" -> SetOverlayTextureSteps
      [] op = "SetSkybox" -> {set_skyboxSteps(1), set_skyboxSteps(6)}
      [] op = "ClearSkybox" -> {clear_skyboxSteps}
      [] op = "get_layers" -> get_layersSteps

Busy(t) == threads[t].op # "idle"

Holds(t, lock) == \E i \in DOMAIN threads[t].held : threads[t].held[i].lock = lock

HoldsMode(t, lock, mode) ==
    \E i \in DOMAIN threads[t].held :
        threads[t].held[i].lock = lock /\ threads[t].held[i].mode = mode

\* u holds the lock in a way that keeps t from taking it in the mode
Conflicts(u, lock, mode) ==
    IF mode = "read" THEN HoldsMode(u, lock, "write") ELSE Holds(u, lock)

Grantable(t, lock, mode) ==
    /\ ~Holds(t, lock)
    /\ \A u \in LockThreadIds \ {t} : ~Conflicts(u, lock, mode)

NextStep(t) == Head(threads[t].todo)

Returned(t) == Busy(t) /\ threads[t].todo = <<>>

Blocked(t) ==
    /\ Busy(t)
    /\ threads[t].todo # <<>>
    /\ NextStep(t).do = "lock"
    /\ ~Grantable(t, NextStep(t).lock, NextStep(t).mode)

DataUnchanged ==
    UNCHANGED <<overlays, key_to_overlay, skybox, swapchains, enabled_extensions,
                pending, fault, ret>>

\* thread t enters a call
Call(t, op) ==
    /\ ~Busy(t)
    /\ \E steps \in StepsOf(op) :
          threads' = [threads EXCEPT ![t] =
                         [op |-> op, todo |-> steps, held |-> <<>>, done |-> <<>>]]
    /\ DataUnchanged
    /\ UNCHANGED image_ready

\* thread t takes a lock that is free for it
Acquire(t) ==
    /\ Busy(t)
    /\ threads[t].todo # <<>>
    /\ NextStep(t).do = "lock"
    /\ Grantable(t, NextStep(t).lock, NextStep(t).mode)
    /\ threads' = [threads EXCEPT
          ![t].held = Append(@, [lock |-> NextStep(t).lock, mode |-> NextStep(t).mode]),
          ![t].done = Append(@, NextStep(t)),
          ![t].todo = Tail(@)]
    /\ DataUnchanged
    /\ UNCHANGED image_ready

\* thread t drops a guard
Release(t) ==
    /\ Busy(t)
    /\ threads[t].todo # <<>>
    /\ NextStep(t).do = "unlock"
    /\ threads' = [threads EXCEPT
          ![t].held = SelectSeq(@, LAMBDA h : h.lock # NextStep(t).lock),
          ![t].done = Append(@, NextStep(t)),
          ![t].todo = Tail(@)]
    /\ DataUnchanged
    /\ UNCHANGED image_ready

\* thread t is in xrWaitSwapchainImage
Waiting(t) ==
    /\ Busy(t)
    /\ threads[t].todo # <<>>
    /\ NextStep(t).do = "wait_image"

\* a wait that gives up when the image is not available
PerformWithTimeout(t) ==
    /\ Busy(t)
    /\ threads[t].todo # <<>>
    /\ NextStep(t).do \notin {"lock", "unlock"}
    /\ threads' = [threads EXCEPT
          ![t].done = Append(@, NextStep(t)),
          ![t].todo = Tail(@)]
    /\ image_ready' = (NextStep(t).do # "acquire_image" /\ image_ready)
    /\ DataUnchanged

\* thread t makes a swapchain call or walks the overlays. acquire_image
\* hands out an image the runtime may still be reading; wait_image, called
\* with xr::Duration::INFINITE, returns when the image is available and not
\* before
Perform(t) ==
    /\ Busy(t)
    /\ threads[t].todo # <<>>
    /\ NextStep(t).do \notin {"lock", "unlock"}
    /\ NextStep(t).do = "wait_image" => image_ready
    /\ threads' = [threads EXCEPT
          ![t].done = Append(@, NextStep(t)),
          ![t].todo = Tail(@)]
    /\ image_ready' = (NextStep(t).do # "acquire_image" /\ image_ready)
    /\ DataUnchanged

\* the runtime is done with the image a thread waits for
ImageAvailable ==
    /\ ~image_ready
    /\ \E t \in LockThreadIds : Waiting(t)
    /\ image_ready' = TRUE
    /\ UNCHANGED threads
    /\ DataUnchanged

\* the call of thread t returns
Return(t) ==
    /\ Returned(t)
    /\ threads' = [threads EXCEPT ![t] = Idle]
    /\ DataUnchanged
    /\ UNCHANGED image_ready

LockNext ==
    \/ \E t \in LockThreadIds :
          \/ \E op \in LockOps : Call(t, op)
          \/ Acquire(t)
          \/ Release(t)
          \/ Perform(t)
          \/ Return(t)
    \/ ImageAvailable

LockSpec == Init /\ [][LockNext]_vars

\* the scheduler lets every thread that can take a step take one; nothing
\* obliges the runtime to make an image available or a caller to call
WaitSpec ==
    /\ LockSpec
    /\ \A t \in LockThreadIds :
          /\ WF_vars(Acquire(t))
          /\ WF_vars(Release(t))
          /\ WF_vars(Perform(t))
          /\ WF_vars(Return(t))

-----------------------------------------------------------------------------
(* C27 *)

\* a set of threads each of which waits for a lock that a member of the set holds
Deadlocked(S) ==
    /\ S # {}
    /\ \A t \in S :
          /\ Blocked(t)
          /\ \E u \in S \ {t} : Conflicts(u, NextStep(t).lock, NextStep(t).mode)

\* C27: no interleaving of the calls deadlocks: no set of threads waits in a
\* circle, some call can always take a step while any call is under way, and
\* a thread that holds more than one lock took the overlay registry first and
\* the key index, the skybox set or the swapchain table after it
C27_NoDeadlock ==
    /\ \A S \in SUBSET LockThreadIds : ~Deadlocked(S)
    /\ (\E t \in LockThreadIds : Busy(t))
          => \E t \in LockThreadIds : Busy(t) /\ ~Blocked(t)
    /\ \A t \in LockThreadIds :
          Len(threads[t].held) > 1 =>
             /\ threads[t].held[1].lock = "overlays"
             /\ \A i \in 2..Len(threads[t].held) :
                   threads[t].held[i].lock \in {"key_to_overlay", "skybox", "swapchains"}

\* a thread inside a skybox submission holds three locks while another waits
\* for the registry
C27_Witness ==
    \E t, u \in LockThreadIds :
        /\ t # u
        /\ Len(threads[t].held) = 3
        /\ Blocked(u)
        /\ NextStep(u).lock = "overlays"


-----------------------------------------------------------------------------
(* C28 *)

\* the call of thread t is about to do the step
About(t, op, what) ==
    /\ threads[t].op = op
    /\ threads[t].todo # <<>>
    /\ NextStep(t).do = what

\* C28: while a get_layers call walks the overlays it does not hold the
\* swapchain table lock
C28_WalkWithoutTable ==
    \A t \in LockThreadIds :
        About(t, "get_layers", "walk") => ~Holds(t, "swapchains")

-----------------------------------------------------------------------------
(* C29 *)

\* C29: while a SetOverlayTexture call is in the swapchain image wait it does
\* not hold the overlay registry lock, so no getter, setter or FindOverlay of
\* another thread waits for it
C29_WaitWithoutRegistry ==
    \A t \in LockThreadIds :
        About(t, "SetOverlayTexture", "wait_image") =>
            /\ ~Holds(t, "overlays")
            /\ \A u \in LockThreadIds \ {t} :
                  threads[u].op \in {"Getter", "Setter", "FindOverlay"} => ~Blocked(u)

-----------------------------------------------------------------------------
(* C30 *)

\* the elements of a sequence
Elements(seq) == {seq[i] : i \in DOMAIN seq}

\* the swapchain calls thread t has made in its call, in order
CycleCalls(t) ==
    SelectSeq(threads[t].done, LAMBDA s : s.do \in Elements(SwapchainCycle))

\* thread t has acquired an image it has not released
InCycle(t) == Len(CycleCalls(t)) % 4 # 0

\* the guards of the swapchain table thread t has dropped in its call
TableDrops(t) ==
    Len(SelectSeq(threads[t].done, LAMBDA s : s.do = "unlock" /\ s.lock = "swapchains"))

\* C30: a submission makes its swapchain calls in the order acquire, wait,
\* copy, release; each time it has let go of the swapchain table it has made
\* exactly one whole cycle, so a returned SetOverlayTexture made one; it holds
\* the table throughout a cycle, and no two threads are inside a cycle at once
C30_OneCycle ==
    \A t \in LockThreadIds :
        /\ \A i \in DOMAIN CycleCalls(t) :
              CycleCalls(t)[i].do = SwapchainCycle[((i - 1) % 4) + 1]
        /\ InCycle(t) => Holds(t, "swapchains")
        /\ (threads[t].op \in {"SetOverlayTexture", "SetSkybox"} /\ ~Holds(t, "swapchains"))
              => Len(CycleCalls(t)) = 4 * TableDrops(t)
        /\ (Returned(t) /\ threads[t].op = "SetOverlayTexture"
              /\ Do("acquire_image") \in Elements(threads[t].done))
              => Len(CycleCalls(t)) = 4
        /\ \A u \in LockThreadIds \ {t} : ~(InCycle(t) /\ InCycle(u))

\* one submission has made its cycle and not yet returned while a skybox
\* submission of another thread is between its acquire and its release
C30_Witness ==
    \E t, u \in LockThreadIds :
        /\ t # u
        /\ Returned(t)
        /\ threads[t].op = "SetOverlayTexture"
        /\ Len(CycleCalls(t)) = 4
        /\ threads[u].op = "SetSkybox"
        /\ InCycle(u)


-----------------------------------------------------------------------------
(* The resource specification: every operation of the overlay manager on a   *)
(* registry of PropSlots slots, through any issued handle: overlays created, *)
(* looked up and destroyed, textures of two sizes submitted, the skybox set  *)
(* and cleared, every getter and setter called, and the layers requested.    *)

ResourceNext ==
    \/ PropCreate
    \/ FindOverlay("a", FALSE)
    \/ \E handle \in TexHandles : DestroyOverlay(handle)
    \/ \E handle \in TexHandles, width \in {2, 4} :
          SetOverlayTexture(handle, Some(Tex("Vulkan", width)), "proceed")
    \/ (SmNextKey(RemoveAll(overlays, skybox)).idx <= PropSlots
            /\ SetSkybox(<<Tex("Vulkan", 2)>>))
    \/ ClearSkybox
    \/ \E handle \in TexHandles : ShowOverlay(handle)
    \/ \E handle \in TexHandles : HideOverlay(handle)
    \/ \E handle \in TexHandles : SetOverlayAlpha(handle, 50)
    \/ \E handle \in TexHandles : SetOverlayWidthInMeters(handle, 2)
    \/ \E handle \in TexHandles :
          SetOverlayTransformAbsolute(handle, "Standing",
                                      Some(Posef(0, 100, 0, 0, 0, 0, 2000)))
    \/ \E handle \in TexHandles : SetOverlayTextureBounds(handle, Some(HalfBounds))
    \/ \E handle \in TexHandles : SetOverlayCurvature(handle, 50)
    \/ \E handle \in TexHandles : SetOverlaySortOrder(handle, 5)
    \/ \E handle \in TexHandles : GetOverlayTextureBounds(handle, FALSE)
    \/ \E handle \in TexHandles : GetOverlayCurvature(handle, FALSE)
    \/ \E handle \in TexHandles : GetOverlayWidthInMeters(handle, FALSE)
    \/ \E handle \in TexHandles : GetOverlaySortOrder(handle, FALSE)
    \/ \E handle \in TexHandles : GetOverlayAlpha(handle, FALSE)
    \/ \E render_skybox \in BOOLEAN : get_layers("Vulkan", render_skybox)

ResourceSpec == Init /\ [][ResourceNext]_vars

-----------------------------------------------------------------------------
(* C31 *)

SubmissionOps == {"SetOverlayTexture", "SetSkybox"}

\* C31: only a texture submission creates swapchain resources: a call that
\* changes the session's swapchain table (creates it, or adds, replaces or
\* removes an entry) or reports a swapchain created is SetOverlayTexture or
\* SetSkybox
C31_OnlySubmissionsCreate ==
    [][(swapchains' # swapchains \/ ret'.created > 0) => ret'.op \in SubmissionOps]_vars

\* a submission has just created a swapchain, the table of the session with it
C31_Witness ==
    /\ ret.op \in SubmissionOps
    /\ ret.created = 1
    /\ IsSome(swapchains)
    /\ DOMAIN Unwrap(swapchains).map # {}


-----------------------------------------------------------------------------
(* C32 *)

\* the rect a completed submission of the texture stores on the overlay
SubmittedRect(texture, overlay) ==
    Some([offset |-> [x |-> 0, y |-> 0],
          extent |-> copy_overlay_to_swapchain(texture, overlay.bounds)])

\* every live overlay whose rect is set has a swapchain under its key
RectHasSwapchain(sm, table) ==
    \A key \in SmKeys(sm) :
        IsSome(Unwrap(SmGet(sm, key)).rect) =>
            /\ IsSome(table)
            /\ SecContains(Unwrap(table).map, key)

\* C32: an overlay is created with its rect unset and its rect changes only
\* in a completed texture submission, to offset (0, 0) and the extent the
\* copy of that submission returned; every live overlay whose rect is set
\* has a swapchain in the session table under its key, and the lookup of
\* get_layers never fails
C32_RectTracksSubmission ==
    [][/\ \A key \in SmKeys(overlays') :
             LET new == Unwrap(SmGet(overlays', key))
                 was == SmGet(overlays, key)
             IN  IF ~IsSome(was)
                 THEN IF ret'.op = "SetSkybox"
                      THEN fault' = "none" =>
                              \E i \in DOMAIN ret'.arg :
                                 new.rect = SubmittedRect(ret'.arg[i], new)
                      ELSE new.rect = None
                 ELSE new.rect # Unwrap(was).rect =>
                         /\ ret'.op = "SetOverlayTexture"
                         /\ ret'.status = "None"
                         /\ from_ffi(ret'.handle) = key
       /\ (ret'.op = "SetOverlayTexture" /\ ret'.status = "None") =>
             LET new == Unwrap(SmGet(overlays', from_ffi(ret'.handle))) IN
             new.rect = SubmittedRect(Unwrap(ret'.arg), new)
       /\ RectHasSwapchain(overlays', swapchains')
       /\ fault' # "panic: unwrap of a missing swapchain"
      ]_vars

\* an overlay whose bounds were halved after its first submission has had a
\* second texture submitted: its rect is that of the second copy
C32_Witness ==
    /\ ret.op = "SetOverlayTexture"
    /\ ret.status = "None"
    /\ ret.created = 1
    /\ Unwrap(ret.arg).width = 4
    /\ LET overlay == Unwrap(SmGet(overlays, from_ffi(ret.handle))) IN
          /\ overlay.bounds = HalfBounds
          /\ overlay.rect = Some([offset |-> [x |-> 0, y |-> 0],
                                  extent |-> [width |-> 2, height |-> 2]])
    /\ from_ffi(ret.handle).version = 3


-----------------------------------------------------------------------------
(* C33 (CapSpec) *)

\* C33: every layer get_layers returns, of any shape, carries a colour
\* scale/bias payload exactly when its overlay stores an alpha, the alpha of
\* the payload is the stored one, and no layer has had a payload attached
\* more than once
C33_AlphaPayload ==
    (ret.op = "get_layers" /\ ret.status = "") =>
        \A i \in 1..Len(ret.layers) :
            LET layer == ret.layers[i]
                overlay == Unwrap(SmGet(overlays, layer.base.swapchain))
            IN  /\ layer.shape \in {"Quad", "Cylinder", "Equirect2"}
                /\ Len(layer.base.color_bias_khr) <= 1
                /\ IsSome(layer.base.color_bias_khr) <=> IsSome(overlay.alpha)
                /\ IsSome(overlay.alpha) =>
                      Unwrap(layer.base.color_bias_khr) = Unwrap(overlay.alpha)

\* the sphere of the skybox, its alpha set through its handle, has been
\* emitted with the payload
C33_Witness ==
    /\ ret.op = "get_layers"
    /\ ret.status = ""
    /\ Len(ret.layers) = 1
    /\ ret.layers[1].shape = "Equirect2"
    /\ ret.layers[1].base.color_bias_khr = Some(50)


-----------------------------------------------------------------------------
(* C34 (WaitSpec) *)

\* thread t is in the last image wait of its call
LastWaiting(t) ==
    /\ Waiting(t)
    /\ Do("wait_image") \notin Elements(Tail(threads[t].todo))

\* C34: the image wait of a submission has no timeout. A thread in the wait
\* stays in it, its call neither returning nor given up, for as long as the
\* image is not available; once the image of the last wait of a
\* SetOverlayTexture or SetSkybox call is available the call returns, all its
\* locks released
C34_WaitUnbounded ==
    /\ [][\A t \in LockThreadIds :
             (Waiting(t) /\ ~image_ready) => threads'[t] = threads[t]]_vars
    /\ \A t \in LockThreadIds :
          (LastWaiting(t) /\ image_ready) ~> (Returned(t) /\ threads[t].held = <<>>)

\* a submission has come back from its image wait and returned with no lock
\* held while another thread's call is under way
C34_Witness ==
    \E t, u \in LockThreadIds :
        /\ t # u
        /\ Returned(t)
        /\ threads[t].op \in {"SetOverlayTexture", "SetSkybox"}
        /\ Do("wait_image") \in Elements(threads[t].done)
        /\ threads[t].held = <<>>
        /\ Busy(u)


-----------------------------------------------------------------------------
(* C35 (ResourceSpec) *)

\* C35: every quad layer get_layers returns has the overlay's width and the
\* height rect.height * width / rect.width, so that height * rect.width =
\* rect.height * width; every equirect layer has the overlay's width as its
\* radius (lengths in hundredths of a metre)
C35_QuadAspect ==
    (ret.op = "get_layers" /\ ret.status = "") =>
        \A i \in 1..Len(ret.layers) :
            LET layer == ret.layers[i]
                overlay == Unwrap(SmGet(overlays, layer.base.swapchain))
                rect == Unwrap(overlay.rect)
            IN  /\ overlay.kind.type = "Quad" =>
                      /\ layer.shape = "Quad"
                      /\ layer.size.width = overlay.width * 100
                      /\ layer.size.height * rect.extent.width
                            = rect.extent.height * overlay.width * 100
                /\ overlay.kind.type = "Sphere" =>
                      /\ layer.shape = "Equirect2"
                      /\ layer.radius.num = overlay.width * 100 * layer.radius.den

\* a quad two metres wide on a rect one pixel wide and two high: four metres high
C35_Witness ==
    /\ ret.op = "get_layers"
    /\ ret.status = ""
    /\ Len(ret.layers) = 1
    /\ ret.layers[1].shape = "Quad"
    /\ ret.layers[1].base.image_rect.extent = [width |-> 1, height |-> 2]
    /\ ret.layers[1].size = [width |-> 200, height |-> 400]


-----------------------------------------------------------------------------
(* C36 (ResourceSpec) *)

\* the field of the overlay each setter assigns
SetterField ==
    [ShowOverlay |-> "visible", HideOverlay |-> "visible",
     SetOverlayWidthInMeters |-> "width", SetOverlaySortOrder |-> "z_order",
     SetOverlayTextureBounds |-> "bounds", SetOverlayAlpha |-> "alpha",
     SetOverlayCurvature |-> "kind", SetOverlayTransformAbsolute |-> "transform"]

\* C36: a setter that returns None changes at most its own field of the
\* overlay its handle resolves to: every other field of that overlay, every
\* other slot of the registry, the key index, the skybox set and the
\* swapchain table are as before
C36_SetterFrame ==
    [][(ret'.op \in DOMAIN SetterField /\ ret'.status = "None") =>
          LET key == from_ffi(ret'.handle)
              field == SetterField[ret'.op]
          IN  /\ UNCHANGED <<key_to_overlay, skybox, swapchains>>
              /\ IF IsSome(SmGet(overlays, key))
                 THEN /\ IsSome(SmGet(overlays', key))
                      /\ overlays' = SmUpdate(overlays, key,
                            [Unwrap(SmGet(overlays, key)) EXCEPT
                                ![field] = Unwrap(SmGet(overlays', key))[field]])
                 ELSE overlays' = overlays
      ]_vars

\* the bounds of a shown overlay with a texture, an alpha and a transform
\* have just been halved
C36_Witness ==
    /\ ret.op = "SetOverlayTextureBounds"
    /\ ret.status = "None"
    /\ LET overlay == Unwrap(SmGet(overlays, from_ffi(ret.handle))) IN
          /\ overlay.bounds = HalfBounds
          /\ overlay.visible
          /\ IsSome(overlay.rect)
          /\ Unwrap(overlay.rect).extent.width = 4
          /\ IsSome(overlay.alpha)
          /\ IsSome(overlay.transform)


-----------------------------------------------------------------------------
(* C37 (ResourceSpec) *)

\* C37: get_layers changes nothing: whatever the state and render_skybox, the
\* registry (every field of every overlay), the key index, the skybox set and
\* the swapchain table are after the call what they were before it, and the
\* layers it returned are those of the state it leaves, i.e. the layers a
\* second call would return
C37_ReadOnly ==
    [][ret'.op = "get_layers" =>
          /\ UNCHANGED <<overlays, key_to_overlay, skybox, swapchains>>
          /\ ret'.status = "" =>
                ret'.layers =
                    IF swapchains' = None THEN <<>>
                    ELSE DropZ(SortByZ(CollectLayers(overlays', SmIter(overlays'),
                                                     ret'.arg)))
          /\ (ret.op = "get_layers" /\ ret.status = "" /\ ret'.status = "")
                => \A i \in 1..Len(ret.layers) :
                      \/ ret.layers[i] \in Elements(ret'.layers)
                      \/ /\ ret.arg /\ ~ret'.arg
                         /\ Unwrap(SmGet(overlays, ret.layers[i].base.swapchain)).z_order
                               = SKYBOX_Z_ORDER
      ]_vars

\* the layers have just been requested with the skybox, and the sphere of
\* the skybox is the one layer returned
C37_Witness ==
    /\ ret.op = "get_layers"
    /\ ret.arg = TRUE
    /\ ret.status = ""
    /\ Len(ret.layers) = 1
    /\ Len(skybox) = 1
    /\ ret.layers[1].base.swapchain = skybox[1]


-----------------------------------------------------------------------------
(* The frame specification: one set_skybox call at a time, its two critical  *)
(* sections separate steps, while another thread requests the layers; the    *)
(* skybox is also cleared between two calls.                                 *)

FrameNext ==
    \/ \E textures \in SphereTextures \cup {CubeTextures} :
          pending = <<>> /\ SetSkyboxClear(textures)
    \/ SetSkyboxBuild(1)
    \/ pending = <<>> /\ ClearSkybox
    \/ \E render_skybox \in BOOLEAN : get_layers("Vulkan", render_skybox)

FrameSpec == Init /\ [][FrameNext]_vars

-----------------------------------------------------------------------------
(* C38 (FrameSpec) *)

\* the names of the overlays of a whole skybox
WholeSkyboxes ==
    { {"__xrizer_skybox"}, {SkyboxFaceName(idx) : idx \in 0..5} }

\* C38: a get_layers call that runs while one SetSkybox call is under way
\* sees the skybox in whole sets only: the registry it walks holds no skybox
\* overlay at all (after the teardown, before the rebuild), or a whole set,
\* the sphere or all six faces, each of them in the skybox set, visible and
\* with its rect, and so each of them among the layers returned with
\* render_skybox
C38_WholeSets ==
    (ret.op = "get_layers" /\ ret.status = "") =>
        LET keys == SmKeys(overlays)
            names == {Unwrap(SmGet(overlays, key)).name : key \in keys}
            emitted == {ret.layers[i].base.swapchain : i \in 1..Len(ret.layers)}
        IN  /\ keys = {} \/ names \in WholeSkyboxes
            /\ Cardinality(keys) = Cardinality(names)
            /\ keys = Elements(skybox)
            /\ \A key \in keys :
                  /\ Unwrap(SmGet(overlays, key)).visible
                  /\ IsSome(Unwrap(SmGet(overlays, key)).rect)
            /\ emitted = IF ret.arg THEN keys ELSE {}
            /\ Len(ret.layers) = Cardinality(emitted)

\* the layers are requested between the teardown of a six-face skybox and the
\* rebuild of the call that tore it down: no layer, no skybox overlay
C38_Witness ==
    /\ ret.op = "get_layers"
    /\ ret.arg = TRUE
    /\ ret.status = ""
    /\ ret.layers = <<>>
    /\ Len(pending) = 1
    /\ SmKeys(overlays) = {}
    /\ SmLen(overlays) = 7

=============================================================================
